---------------------------- MODULE Spec2Model ----------------------------
(***************************************************************************)
(* Brand asset extraction of BrochureGenerator (src/brochure_generator.py): *)
(* extract_company_logo, extract_brand_colors, extract_company_images,     *)
(* generate_qr_code and their orchestration in generate_interactive_html.  *)
(*                                                                         *)
(* One thread of control runs; pc is its position and stack the callers    *)
(* waiting for the running function.  The web site is an input fixed by    *)
(* the initial state; the outcome of every network request and of every    *)
(* library call that can raise is chosen when the call is made.            *)
(***************************************************************************)
EXTENDS Integers, Sequences, FiniteSets, TLC

VARIABLES
    pc,        \* position of the running code
    stack,     \* callers of the running function, innermost first
    url,       \* the company URL the running call was given
    site,      \* what the web site serves for url (the page) and for its assets
    orch,      \* locals of generate_interactive_html
    colors_f,  \* locals of extract_brand_colors
    logo_f,    \* locals of extract_company_logo
    images_f,  \* locals of extract_company_images
    qr_f,      \* arguments of generate_qr_code when it is called on its own
    ret,       \* the value the last finished function returned
    log,       \* history: requests made, strategies consulted, handlers entered
    generator, \* app.py: the module-level generator
    threads    \* app.py: the request each server thread is handling

vars == <<pc, stack, url, site, orch, colors_f, logo_f, images_f, qr_f, ret, log,
          generator, threads>>

(***************************************************************************)
(* Values                                                                  *)
(***************************************************************************)
\* Python values are records with a tag, so that any two can be compared.
None == [tag |-> "None"]

\* An exception leaving a function (no handler of the function caught it).
Raised == [tag |-> "Raised"]

\* logo_url = None; a URL is a string
NoUrl == "None"

Max2(a, b) == IF a >= b THEN a ELSE b
Min2(a, b) == IF a <= b THEN a ELSE b
Abs(a) == IF a >= 0 THEN a ELSE 0 - a
Max3(a, b, c) == Max2(a, Max2(b, c))

(***************************************************************************)
(* Colours.  An RGB triple is <<r, g, b>>; a colour string is the sequence *)
(* of its characters, "#" and six hexadecimal digits.                      *)
(***************************************************************************)
HexDigits == <<"0", "1", "2", "3", "4", "5", "6", "7",
               "8", "9", "a", "b", "c", "d", "e", "f">>

UpperDigits == <<"0", "1", "2", "3", "4", "5", "6", "7",
                 "8", "9", "A", "B", "C", "D", "E", "F">>

\* '{:02x}'.format(n) for n in 0..255
Hex2(n) == <<HexDigits[(n \div 16) + 1], HexDigits[(n % 16) + 1]>>

\* '#{:02x}{:02x}{:02x}'.format(*rgb)
FormatHex(rgb) == <<"#">> \o Hex2(rgb[1]) \o Hex2(rgb[2]) \o Hex2(rgb[3])

\* str.upper() on one character of a colour string
UpperChar(ch) ==
    IF \E i \in 1..16 : HexDigits[i] = ch
    THEN UpperDigits[CHOOSE i \in 1..16 : HexDigits[i] = ch]
    ELSE ch

\* '#' + c.upper() for a six-digit match c of the regular expression
CssColor(lit) == <<"#">> \o [i \in 1..Len(lit) |-> UpperChar(lit[i])]

\* int(d, 16) for one digit, either case
HexVal(ch) ==
    (CHOOSE i \in 1..16 : HexDigits[i] = ch \/ UpperDigits[i] = ch) - 1

\* int(hex_color[a:a+2], 16) on the digits at positions a, a+1 (1-based)
HexByte(s, a) == 16 * HexVal(s[a]) + HexVal(s[a + 1])

\* the three channels is_brand_color parses after color.replace('#', '')
ParseHex(color) ==
    LET hex_color == SelectSeq(color, LAMBDA ch : ch # "#")
    IN  <<HexByte(hex_color, 1), HexByte(hex_color, 3), HexByte(hex_color, 5)>>

DefaultPrimary == <<"#", "6", "3", "6", "6", "f", "1">>
DefaultSecondary == <<"#", "e", "c", "4", "8", "9", "9">>
DefaultAccent == <<"#", "8", "b", "5", "c", "f", "6">>

\* the default colors dict
DefaultColors ==
    [primary |-> DefaultPrimary, secondary |-> DefaultSecondary, accent |-> DefaultAccent]

\* is_vibrant(rgb); brightness = (r + g + b) / 3 is compared on r + g + b
is_vibrantNoGrayTest(rgb) ==
    ~((rgb[1] + rgb[2] + rgb[3]) < 3 * 30 \/ (rgb[1] + rgb[2] + rgb[3]) > 3 * 240)
is_vibrantStrict(rgb) ==
    /\ Max3(Abs(rgb[1] - rgb[2]), Abs(rgb[2] - rgb[3]), Abs(rgb[1] - rgb[3])) > 20
    /\ (rgb[1] + rgb[2] + rgb[3]) > 3 * 30
    /\ (rgb[1] + rgb[2] + rgb[3]) < 3 * 240
is_vibrant(rgb) ==
    LET r == rgb[1]
        g == rgb[2]
        b == rgb[3]
        max_diff == Max3(Abs(r - g), Abs(g - b), Abs(r - b))
    IN  IF max_diff < 20 THEN FALSE
        ELSE IF (r + g + b) < 3 * 30 \/ (r + g + b) > 3 * 240 THEN FALSE
        ELSE TRUE

\* is_brand_color(color)
is_brand_color(color) ==
    LET rgb == ParseHex(color)
        r == rgb[1]
        g == rgb[2]
        b == rgb[3]
        max_diff == Max3(Abs(r - g), Abs(g - b), Abs(r - b))
    IN  IF r > 240 /\ g > 240 /\ b > 240 THEN FALSE
        ELSE IF r < 30 /\ g < 30 /\ b < 30 THEN FALSE
        ELSE IF max_diff < 25 THEN FALSE
        ELSE TRUE

(***************************************************************************)
(* The web site.  site.og is the content of <meta property="og:image">,    *)
(* site.sels[i] the src attributes of the elements matching the i-th logo  *)
(* selector in document order, site.icon / site.shortcut the href of the   *)
(* first <link rel=icon> / <link rel="shortcut icon">, site.logo_file the  *)
(* file served for a logo URL, site.css the colour literals of the page in *)
(* the order the CSS scan meets them, site.imgs the <img> elements.        *)
(***************************************************************************)
NoTag == "NoTag"     \* the element is not in the page
NoAttr == "NoAttr"   \* the element is there, the attribute missing or empty

\* references that carry their own scheme
AbsoluteRefs == {"https://cdn.acme.test/office.jpg", "ftp://files.acme.test/plan.jpg",
                 "data:image/png;base64,iVBORw0KGgo="}

\* urljoin(url, logo_url), urljoin(url, img_url)
urljoin(base, ref) == IF ref \in AbsoluteRefs THEN ref ELSE base \o ref

\* len(logo_selectors)
NumSelectors == 12

\* the selectors of the page that match something are among the first ones
SelMatches(soup, i) == IF i <= Len(soup.sels) THEN soup.sels[i] ELSE <<>>

\* soup.find('meta', property='og:image') and its content
MetaImageContent(soup) ==
    IF soup.og = NoTag \/ soup.og = NoAttr THEN NoUrl ELSE soup.og

\* soup.select_one(selector): the first match, and its src if it has one
SelectAnySrc(soup, i) ==
    LET with_src == SelectSeq(SelMatches(soup, i), LAMBDA src : src # NoAttr)
    IN  IF with_src = <<>> THEN NoUrl ELSE Head(with_src)
SelectOneSrc(soup, i) ==
    LET found == SelMatches(soup, i)
    IN  IF found = <<>> \/ Head(found) = NoAttr THEN NoUrl ELSE Head(found)

\* soup.find('link', rel='icon') or soup.find('link', rel='shortcut icon'),
\* and its href
FaviconHref(soup) ==
    LET favicon == IF soup.icon # NoTag THEN soup.icon ELSE soup.shortcut
    IN  IF favicon = NoTag \/ favicon = NoAttr THEN NoUrl ELSE favicon

\* Where extract_company_logo goes after Method 1 (the guards of lines 450,
\* 474 and 480 on logo_url).
AfterMetaAlways(logo_url) == "logo_select"
AfterMeta(logo_url) == IF logo_url = NoUrl THEN "logo_select" ELSE "logo_download"

\* Where it goes after one selector was tried: break on a hit, the next
\* selector otherwise, Method 3 when the list is exhausted.
AfterSelect(logo_url, i) ==
    IF logo_url # NoUrl THEN "logo_download"
    ELSE IF i < NumSelectors THEN "logo_select" ELSE "logo_favicon"

\* the guard of line 480 after Method 3
AfterFavicon(logo_url) == IF logo_url = NoUrl THEN "logo_notfound" ELSE "logo_download"

\* f"data:{mime_type};base64,{img_data}"
DataUri(mime_type, content) == [tag |-> "data", mime |-> mime_type, content |-> content]

\* The outcomes of requests.get: the call raises (unreachable host, timeout)
\* or a response with a status code arrives.
Statuses == {200, 404}
NetOutcomes ==
    {[raised |-> TRUE, status |-> 0]} \cup {[raised |-> FALSE, status |-> s] : s \in Statuses}

\* img_response.headers.get('content-type', 'image/png')
ContentType(file) == IF file.ctype = NoAttr THEN "image/png" ELSE file.ctype

\* what extract_company_logo returns after the download of lines 486-495
LogoOfResponse(status, file) ==
    IF status = 200 THEN DataUri(ContentType(file), file.body) ELSE None

\* the handler of lines 500-502
LogoExceptReraise == Raised
LogoExcept == None

(***************************************************************************)
(* Calls and returns                                                       *)
(***************************************************************************)
\* the running function returns value to its caller
Return(value) ==
    /\ ret' = value
    /\ pc' = IF stack = <<>> THEN "done" ELSE Head(stack)
    /\ stack' = IF stack = <<>> THEN <<>> ELSE Tail(stack)

Request(fn, target, outcome) == [fn |-> fn, target |-> target, outcome |-> outcome]

\* what one requests.get(..., timeout=10) call sends: one request whatever
\* its outcome (no Session with a retry adapter is mounted, no call sits in
\* a loop of attempts)
SentWithRetry(fn, target, outcome) ==
    IF outcome.raised
    THEN <<Request(fn, target, outcome), Request(fn, target, outcome)>>
    ELSE <<Request(fn, target, outcome)>>
Sent(fn, target, outcome) == <<Request(fn, target, outcome)>>

Logged(field, entry) == [log EXCEPT ![field] = Append(@, entry)]

\* the name under which the history keeps extract_company_logo: the call of
\* extract_brand_colors (line 293) or the stage of the orchestrator (line 771)
LogoCall == IF stack # <<>> /\ Head(stack) = "colors_logo" THEN "colors.logo" ELSE "logo"

\* a strategy of the logo chain, as the history keeps it
Consulted(method, i) == [method |-> method, i |-> i]

EmptyLogoFrame == [soup |-> None, logo_url |-> NoUrl, sel_i |-> 0]

(***************************************************************************)
(* extract_company_logo(url)                                               *)
(***************************************************************************)
\* lines 436-441: fetch and parse the page
LogoFetchPage ==
    /\ pc = "logo_get"
    /\ \E outcome \in NetOutcomes :
         IF outcome.raised
         THEN /\ Return(LogoExcept)
              /\ log' = [log EXCEPT !.requests = @ \o Sent(LogoCall, "page", outcome),
                                    !.caught = @ \cup {LogoCall},
                                    !.consulted = <<>>]
              /\ logo_f' = EmptyLogoFrame
         ELSE /\ pc' = "logo_meta"
              /\ logo_f' = [soup |-> site.page, logo_url |-> NoUrl, sel_i |-> 0]
              /\ log' = [log EXCEPT !.requests = @ \o Sent(LogoCall, "page", outcome),
                                    !.consulted = <<>>]
              /\ UNCHANGED <<stack, ret>>
    /\ UNCHANGED <<url, qr_f, generator, threads, site, orch, colors_f, images_f>>

\* lines 443-447: Method 1, the og:image meta tag
LogoMeta ==
    /\ pc = "logo_meta"
    /\ LET logo_url == MetaImageContent(logo_f.soup)
       IN  /\ logo_f' = [logo_f EXCEPT !.logo_url = logo_url, !.sel_i = 1]
           /\ pc' = AfterMeta(logo_url)
    /\ log' = Logged("consulted", Consulted("og", 0))
    /\ UNCHANGED <<stack, url, qr_f, generator, threads, site, orch, colors_f, images_f, ret>>

\* lines 466-471: Method 2, one selector of the list
LogoSelect ==
    /\ pc = "logo_select"
    /\ LET src == SelectOneSrc(logo_f.soup, logo_f.sel_i)
           logo_url == IF src # NoUrl THEN src ELSE logo_f.logo_url
       IN  /\ logo_f' = [logo_f EXCEPT !.logo_url = logo_url,
                                       !.sel_i = @ + 1]
           /\ pc' = AfterSelect(logo_url, logo_f.sel_i)
    /\ log' = Logged("consulted", Consulted("selector", logo_f.sel_i))
    /\ UNCHANGED <<stack, url, qr_f, generator, threads, site, orch, colors_f, images_f, ret>>

\* lines 473-478: Method 3, the favicon
LogoFavicon ==
    /\ pc = "logo_favicon"
    /\ LET logo_url == FaviconHref(logo_f.soup)
       IN  /\ logo_f' = [logo_f EXCEPT !.logo_url = logo_url]
           /\ pc' = AfterFavicon(logo_url)
    /\ log' = Logged("consulted", Consulted("favicon", 0))
    /\ UNCHANGED <<stack, url, qr_f, generator, threads, site, orch, colors_f, images_f, ret>>

\* lines 480-495: download the chosen URL
LogoDownload ==
    /\ pc = "logo_download"
    /\ \E outcome \in NetOutcomes :
         /\ log' = [log EXCEPT !.requests = @ \o Sent(LogoCall, urljoin(url, logo_f.logo_url), outcome),
                               !.caught = IF outcome.raised THEN @ \cup {LogoCall} ELSE @]
         /\ IF outcome.raised
            THEN Return(LogoExcept)
            ELSE Return(LogoOfResponse(outcome.status, site.logo_file))
    /\ UNCHANGED <<url, qr_f, generator, threads, site, orch, colors_f, logo_f, images_f>>

\* lines 497-498: no logo URL was found
LogoNotFound ==
    /\ pc = "logo_notfound"
    /\ Return(None)
    /\ UNCHANGED <<url, qr_f, generator, threads, site, orch, colors_f, logo_f, images_f, log>>

NextLogo ==
    \/ LogoFetchPage
    \/ LogoMeta
    \/ LogoSelect
    \/ LogoFavicon
    \/ LogoDownload
    \/ LogoNotFound

(***************************************************************************)
(* extract_brand_colors(url)                                               *)
(***************************************************************************)
\* the content types for which logo_data.startswith('data:image') holds
ImageMimes == {"image/png", "image/jpeg", "image/x-icon"}

\* logo_data and logo_data.startswith('data:image')
LogoUsable(logo_data) == logo_data.tag = "data" /\ logo_data.mime \in ImageMimes

\* ColorThief(img_file).get_palette(color_count=5, quality=1): the quantized
\* colours of the file's pixels, most frequent cluster first; it raises on a
\* file that is no image and on an image without an opaque non-white pixel.
\* get_color(quality=1) is the first colour of the same palette.
Quantizable(content) == content.decodable /\ content.quant # <<>>
get_color(content) == content.quant[1]
get_palette(content) == content.quant

\* vibrant_colors = [c for c in palette if is_vibrant(c)]
VibrantColors(palette) == SelectSeq(palette, is_vibrant)

\* lines 330-336: secondary and accent from the vibrant colours
LogoSlotsFromFirst(colors, vibrant_colors) ==
    [colors EXCEPT
       !.secondary = IF Len(vibrant_colors) >= 1 THEN FormatHex(vibrant_colors[1]) ELSE @,
       !.accent = IF Len(vibrant_colors) >= 2 THEN FormatHex(vibrant_colors[2]) ELSE @]
LogoSlots(colors, vibrant_colors) ==
    [colors EXCEPT
       !.secondary = IF Len(vibrant_colors) >= 2 THEN FormatHex(vibrant_colors[2]) ELSE @,
       !.accent = IF Len(vibrant_colors) >= 3 THEN FormatHex(vibrant_colors[3]) ELSE @]

\* lines 353-365: all_colors, every six-digit literal upper-cased
AllColors(css) == [i \in 1..Len(css) |-> CssColor(css[i])]

\* filtered_colors = [c for c in all_colors if is_brand_color(c)]
FilteredColors(all_colors) == SelectSeq(all_colors, is_brand_color)

\* the number of occurrences of c in seq
Count(seq, c) == Cardinality({i \in 1..Len(seq) : seq[i] = c})

\* the distinct entries of seq in the order of their first occurrence
RECURSIVE Distinct(_)
Distinct(seq) ==
    IF seq = <<>> THEN <<>>
    ELSE LET front == Distinct(SubSeq(seq, 1, Len(seq) - 1))
             last == seq[Len(seq)]
         IN  IF \E i \in 1..Len(front) : front[i] = last THEN front ELSE Append(front, last)

\* keys sorted by descending count, stable: insert key after every entry
\* whose count is at least its own
RECURSIVE InsertByCount(_, _, _)
InsertByCount(sorted, key, seq) ==
    IF sorted = <<>> THEN <<key>>
    ELSE IF Count(seq, Head(sorted)) >= Count(seq, key)
         THEN <<Head(sorted)>> \o InsertByCount(Tail(sorted), key, seq)
         ELSE <<key>> \o sorted

RECURSIVE SortByCount(_, _)
SortByCount(keys, seq) ==
    IF keys = <<>> THEN <<>>
    ELSE InsertByCount(SortByCount(SubSeq(keys, 1, Len(keys) - 1), seq), keys[Len(keys)], seq)

\* [color for color, count in Counter(filtered_colors).most_common(5)]
MostCommon5(filtered_colors) ==
    LET ranked == SortByCount(Distinct(filtered_colors), filtered_colors)
    IN  SubSeq(ranked, 1, Min2(5, Len(ranked)))

\* lines 398-406: the slots from the ranked colours
CssSlotsKeepAssigned(colors, unique_colors) ==
    [colors EXCEPT
       !.primary = IF Len(unique_colors) >= 1 /\ @ = DefaultPrimary
                   THEN unique_colors[1] ELSE @,
       !.secondary = IF Len(unique_colors) >= 2 THEN unique_colors[2] ELSE @,
       !.accent = IF Len(unique_colors) >= 3 THEN unique_colors[3] ELSE @]
CssSlotsDropDefault(colors, unique_colors) ==
    [primary |-> IF Len(unique_colors) >= 1 THEN unique_colors[1] ELSE colors.primary,
     secondary |-> IF Len(unique_colors) >= 2 THEN unique_colors[2] ELSE <<>>,
     accent |-> IF Len(unique_colors) >= 3 THEN unique_colors[3] ELSE <<>>]
CssSlots(colors, unique_colors) ==
    [colors EXCEPT
       !.primary = IF Len(unique_colors) >= 1 THEN unique_colors[1] ELSE @,
       !.secondary = IF Len(unique_colors) >= 2 THEN unique_colors[2] ELSE @,
       !.accent = IF Len(unique_colors) >= 3 THEN unique_colors[3] ELSE @]

\* lines 389-412: the palette of the CSS strategy
CssPalette(colors, css) ==
    LET filtered_colors == FilteredColors(AllColors(css))
    IN  IF filtered_colors # <<>>
        THEN CssSlots(colors, MostCommon5(filtered_colors))
        ELSE colors

\* the place of a slot in the palette
SlotRank(slot) == CASE slot = "primary" -> 1 [] slot = "secondary" -> 2 [] slot = "accent" -> 3

\* the handler of lines 414-420
ColorsExcept(colors) == DefaultColors

\* the colors dict as a returned value
ColorsResult(colors) == [tag |-> "colors", colors |-> colors]

EmptyColorsFrame == [colors |-> DefaultColors, logo_data |-> None]

\* lines 286-293: the default colours, then the call of extract_company_logo
ColorsStart ==
    /\ pc = "colors_start"
    /\ colors_f' = [colors |-> DefaultColors, logo_data |-> None]
    /\ stack' = <<"colors_logo">> \o stack
    /\ pc' = "logo_get"
    /\ log' = [log EXCEPT !.strategy = "none", !.filled = {}, !.inner = {}]
    /\ UNCHANGED <<url, qr_f, generator, threads, site, orch, logo_f, images_f, ret>>

\* lines 293-310: the logo comes back; decode it and take the dominant colour
ColorsDominant ==
    /\ pc = "colors_logo"
    /\ IF ret = Raised
       THEN /\ Return(ColorsResult(ColorsExcept(colors_f.colors)))
            /\ colors_f' = [colors_f EXCEPT !.logo_data = ret]
            /\ log' = [log EXCEPT !.caught = @ \cup {"colors"}, !.filled = {}]
       ELSE /\ IF LogoUsable(ret) /\ Quantizable(ret.content)
               THEN /\ colors_f' = [colors |-> [colors_f.colors EXCEPT
                                                  !.primary = FormatHex(get_color(ret.content))],
                                    logo_data |-> ret]
                    /\ pc' = "colors_palette"
                    /\ log' = [log EXCEPT !.strategy = "logo", !.filled = {"primary"}]
               ELSE /\ colors_f' = [colors_f EXCEPT !.logo_data = ret]
                    /\ pc' = "colors_css"
                    /\ log' = [log EXCEPT !.inner = @ \cup
                                 (IF LogoUsable(ret) THEN {"decode"} ELSE {})]
            /\ UNCHANGED <<stack, ret>>
    /\ UNCHANGED <<url, qr_f, generator, threads, site, orch, logo_f, images_f>>

\* lines 312-343: the palette of the logo; a failure here (the library call
\* raising) is caught by the inner handler and leads to the CSS strategy
ColorsPalette ==
    /\ pc = "colors_palette"
    /\ \E raises \in BOOLEAN :
         IF raises
         THEN /\ pc' = "colors_css"
              /\ log' = [log EXCEPT !.inner = @ \cup {"palette"}]
              /\ UNCHANGED <<stack, ret, colors_f>>
         ELSE /\ LET palette == get_palette(colors_f.logo_data.content)
                     colors == LogoSlots(colors_f.colors, VibrantColors(palette))
                 IN  /\ colors_f' = [colors_f EXCEPT !.colors = colors]
                     /\ Return(ColorsResult(colors))
                     /\ log' = [log EXCEPT !.filled = @ \cup
                                  (IF Len(VibrantColors(palette)) >= 2 THEN {"secondary"} ELSE {})
                                  \cup (IF Len(VibrantColors(palette)) >= 3 THEN {"accent"} ELSE {})]
    /\ UNCHANGED <<url, qr_f, generator, threads, site, orch, logo_f, images_f>>

\* lines 344-412: the CSS strategy
ColorsCss ==
    /\ pc = "colors_css"
    /\ \E outcome \in NetOutcomes :
         IF outcome.raised
         THEN /\ Return(ColorsResult(ColorsExcept(colors_f.colors)))
              /\ log' = [log EXCEPT !.requests = @ \o Sent("colors", "page", outcome),
                                    !.caught = @ \cup {"colors"},
                                    !.filled = {}]
              /\ UNCHANGED colors_f
         ELSE /\ LET colors == CssPalette(colors_f.colors, site.page.css)
                 IN  /\ colors_f' = [colors_f EXCEPT !.colors = colors]
                     /\ Return(ColorsResult(colors))
              /\ log' = [log EXCEPT !.requests = @ \o Sent("colors", "page", outcome),
                                    !.strategy = IF FilteredColors(AllColors(site.page.css)) # <<>>
                                                 THEN IF @ = "logo" THEN "both" ELSE "css"
                                                 ELSE @,
                                    !.filled = @ \cup
                                       {slot \in {"primary", "secondary", "accent"} :
                                          SlotRank(slot) <= Len(Distinct(FilteredColors(AllColors(site.page.css))))}]
    /\ UNCHANGED <<url, qr_f, generator, threads, site, orch, logo_f, images_f>>

NextColors ==
    \/ ColorsStart
    \/ ColorsDominant
    \/ ColorsPalette
    \/ ColorsCss

(***************************************************************************)
(* extract_company_images(url, max_images)                                 *)
(*                                                                         *)
(* An <img> element is a record: srcs are its src, data-src, data-lazy-src *)
(* and data-original attributes, width and height its size attributes, alt *)
(* and class its texts, net the outcome of requesting its URL and file the *)
(* body the server sends.  Strings are opaque, so each test on a string is *)
(* the set of the strings of the model that pass it.                       *)
(***************************************************************************)
\* img.get('src') or img.get('data-src') or img.get('data-lazy-src') or
\* img.get('data-original')
ImgUrl(img) ==
    LET present == SelectSeq(img.srcs, LAMBDA a : a # NoAttr)
    IN  IF present = <<>> THEN NoAttr ELSE Head(present)

\* img_url.startswith('data:')
StartsWithData(img_url) == img_url \in {"data:image/png;base64,iVBORw0KGgo="}

\* img_url.lower().endswith(('.svg', '.gif'))
EndsWithSvgGif(img_url) == img_url \in {"/img/wave.svg", "/img/spinner.GIF"}

\* the attribute texts for which int(str(width).replace('px', '')) is a
\* number; on any other text it raises ValueError
IsPx(attr) == attr \in {"199", "200", "149", "150", "640px", "100px"}

\* int(str(width).replace('px', ''))
ParsePx(attr) ==
    CASE attr = "199" -> 199
      [] attr = "200" -> 200
      [] attr = "149" -> 149
      [] attr = "150" -> 150
      [] attr = "640px" -> 640
      [] attr = "100px" -> 100

AttrMinWidth == 200
AttrMinHeight == 150

\* lines 546-553: both attributes there, both numbers, one of them small
AttrTooSmallBoth(width, height) ==
    /\ width # NoAttr /\ height # NoAttr
    /\ IsPx(width) /\ IsPx(height)
    /\ (ParsePx(width) < AttrMinWidth /\ ParsePx(height) < AttrMinHeight)
AttrTooSmall(width, height) ==
    /\ width # NoAttr /\ height # NoAttr
    /\ IsPx(width) /\ IsPx(height)
    /\ (ParsePx(width) < AttrMinWidth \/ ParsePx(height) < AttrMinHeight)

\* any(pattern in part.lower() for pattern in skip_patterns), for a part of
\* img_str; no pattern holds a space, so a match lies within one part
HasSkipPattern(part) ==
    part \in {"/img/logo.jpg", "/assets/thumbs/1.jpg", "Company Logo", "btn-icon", "Five Stars"}

\* lines 556-565
MatchesSkipPatterns(img) ==
    HasSkipPattern(ImgUrl(img)) \/ HasSkipPattern(img.alt) \/ HasSkipPattern(img.class)

\* img_url.startswith(('http://', 'https://'))
IsHttp(abs_url) ==
    abs_url \notin {"ftp://files.acme.test/plan.jpg", "data:image/png;base64,iVBORw0KGgo="}

MinBytes == 10000
MaxBytes == 5000000
MinWidth == 300
MinHeight == 200
ThumbWidth == 800
ThumbHeight == 600

\* Image.thumbnail((800, 600)): the size that keeps the aspect ratio w / h
\* and fits the box; the side that is not the box's is the floor or the
\* ceiling of its exact value, whichever keeps the ratio better, at least 1.
Thumbnail(w, h) ==
    IF ThumbWidth >= w /\ ThumbHeight >= h THEN <<w, h>>
    ELSE IF ThumbWidth * h >= ThumbHeight * w
    THEN LET num == ThumbHeight * w
             f == num \div h
             rem == num % h
             x == IF rem = 0 \/ rem <= h - rem THEN f ELSE f + 1
         IN  <<Max2(x, 1), ThumbHeight>>
    ELSE LET num == ThumbWidth * h
             f == num \div w
             c == IF num % w = 0 THEN f ELSE f + 1
             y == IF f = 0 THEN 0
                  ELSE IF Abs(w * f - num) * c <= Abs(w * c - num) * f THEN f ELSE c
         IN  <<ThumbWidth, Max2(y, 1)>>

\* lines 618-620: resize if too large
NotNormalized(w, h) == <<w, h>>
Normalized(w, h) == IF w > ThumbWidth \/ h > ThumbHeight THEN Thumbnail(w, h) ELSE <<w, h>>

\* the modes of line 623, pasted on a white background (lines 624-636)
Composited(mode) == mode \in {"RGBA", "LA", "P", "L"}

\* lines 622-638: the mode after the conversion; the background of line 625
\* is an RGB image, convert('RGB') gives one, an RGB image is left alone
ConvertedModeKeepOthers(mode) == IF Composited(mode) THEN "RGB" ELSE mode
ConvertedMode(mode) ==
    IF Composited(mode) THEN "RGB"
    ELSE IF mode # "RGB" THEN "RGB"
    ELSE mode

\* lines 650-655: the entry appended for an element that passed
Encoded(img, base) ==
    LET size == Normalized(img.file.width, img.file.height)
    IN  DataUri("image/jpeg", [origin |-> urljoin(base, ImgUrl(img)),
                               width |-> size[1], height |-> size[2],
                               mode |-> ConvertedMode(img.file.mode),
                               background |-> IF Composited(img.file.mode)
                                              THEN "white" ELSE "none"])

\* line 587: content_length < 10000 or content_length > 5000000
SizeOutOfRangeNoMaximum(content_length) == content_length < MinBytes
SizeOutOfRange(content_length) ==
    content_length < MinBytes \/ content_length > MaxBytes

\* The step of lines 534-648 at which the element is skipped, "ok" if none.
SkipReason(img, base) ==
    IF ImgUrl(img) = NoAttr THEN "no_source"
    ELSE IF StartsWithData(ImgUrl(img)) \/ EndsWithSvgGif(ImgUrl(img)) THEN "data_svg_gif"
    ELSE IF AttrTooSmall(img.width, img.height) THEN "attributes"
    ELSE IF MatchesSkipPatterns(img) THEN "pattern"
    ELSE IF ~IsHttp(urljoin(base, ImgUrl(img))) THEN "scheme"
    ELSE IF img.net.raised THEN "exception"
    ELSE IF img.net.status # 200 THEN "status"
    ELSE IF SizeOutOfRange(img.file.size) THEN "size"
    ELSE IF ~img.file.decodable THEN "verify"
    ELSE IF img.file.width < MinWidth \/ img.file.height < MinHeight THEN "dimensions"
    ELSE IF img.file.mode \in {"RGBA", "LA"} /\ img.file.transparent THEN "transparent"
    ELSE IF img.file.truncated THEN "exception"
    ELSE IF img.file.white THEN "white"
    ELSE "ok"

Qualifies(img, base) == SkipReason(img, base) = "ok"

\* the element's URL is requested (lines 576-579 are reached)
Downloads(img, base) ==
    SkipReason(img, base) \notin {"no_source", "data_svg_gif", "attributes", "pattern", "scheme"}

\* an iteration of the loop, as the history keeps it: the element, the step
\* that skipped it ("ok" if it was appended) and len(images) when it began
Scanned(i, reason, collected) == [i |-> i, reason |-> reason, collected |-> collected]

\* line 530: the loop's exit test
AtLimitOffByOne(images, max_images) == Len(images) > max_images
AtLimit(images, max_images) == Len(images) >= max_images

\* line 655: images.append(...)
Prepended(images, entry) == <<entry>> \o images
Appended(images, entry) == Append(images, entry)

\* the handler of lines 658-660: the element is given up (continue), the
\* images collected before it stay as they are
InnerExceptDropsCollected(images) == <<>>
InnerExcept(images) == images

\* the handler of lines 665-669
ImagesExcept == [tag |-> "images", images |-> <<>>]

ImagesResult(images) == [tag |-> "images", images |-> images]

ImagesFrame(max_images) ==
    [img_tags |-> <<>>, i |-> 0, images |-> <<>>, max_images |-> max_images]

\* the for loop goes on with element i, or is over
LoopAt(i, img_tags) == IF i > Len(img_tags) THEN "images_return" ELSE "images_scan"

\* lines 519-527: fetch and parse the page
ImagesFetchPage ==
    /\ pc = "images_get"
    /\ \E outcome \in NetOutcomes :
         /\ log' = [log EXCEPT !.requests = @ \o Sent("images", "page", outcome),
                               !.caught = IF outcome.raised THEN @ \cup {"images"} ELSE @]
         /\ IF outcome.raised
            THEN /\ Return(ImagesExcept)
                 /\ UNCHANGED images_f
            ELSE /\ images_f' = [images_f EXCEPT !.img_tags = site.page.imgs, !.i = 1,
                                                 !.images = <<>>]
                 /\ pc' = LoopAt(1, site.page.imgs)
                 /\ UNCHANGED <<stack, ret>>
    /\ UNCHANGED <<url, qr_f, generator, threads, site, orch, colors_f, logo_f>>

\* lines 529-660: one iteration of the loop over img_tags
ImagesScan ==
    /\ pc = "images_scan"
    /\ LET img == images_f.img_tags[images_f.i]
       IN  IF AtLimit(images_f.images, images_f.max_images)
           THEN /\ pc' = "images_return"
                /\ UNCHANGED <<images_f, log>>
           ELSE /\ images_f' = [images_f EXCEPT
                                  !.images = IF Qualifies(img, url)
                                             THEN Appended(@, Encoded(img, url))
                                             ELSE IF SkipReason(img, url) = "exception"
                                             THEN InnerExcept(@)
                                             ELSE @,
                                  !.i = @ + 1]
                /\ pc' = LoopAt(images_f.i + 1, images_f.img_tags)
                /\ log' = [log EXCEPT
                             !.requests = IF Downloads(img, url)
                                          THEN @ \o Sent("images",
                                                                 urljoin(url, ImgUrl(img)),
                                                                 img.net)
                                          ELSE @,
                             !.scanned = Append(@, Scanned(images_f.i, SkipReason(img, url),
                                                           Len(images_f.images)))]
    /\ UNCHANGED <<stack, url, qr_f, generator, threads, site, orch, colors_f, logo_f, ret>>

\* lines 662-663
ImagesReturn ==
    /\ pc = "images_return"
    /\ Return(ImagesResult(images_f.images))
    /\ UNCHANGED <<url, qr_f, generator, threads, site, orch, colors_f, logo_f, images_f, log>>

NextImages ==
    \/ ImagesFetchPage
    \/ ImagesScan
    \/ ImagesReturn

(***************************************************************************)
(* generate_qr_code(data, size)                                            *)
(***************************************************************************)
\* the size parameter's default
DefaultQrSize == 200

\* fill_color of line 735
QrFillColor == <<"#", "6", "3", "6", "6", "f", "1">>

\* a company URL longer than any QR symbol at error correction H holds
LongUrl == "https://acme.test/?q=(3000 more characters)"

\* len(data.encode()) for the data of the model
ByteLen(data) == IF data = LongUrl THEN 3021 ELSE Len(data)

\* The bytes a symbol of version 1..40 holds at error correction H
\* (ERROR_CORRECT_H, line 728) in byte mode.
QrByteCapacityH ==
    <<7, 14, 24, 34, 44, 58, 64, 84, 98, 119,
      137, 155, 177, 194, 220, 250, 280, 310, 338, 382,
      403, 439, 461, 511, 535, 593, 625, 658, 698, 742,
      790, 842, 898, 958, 983, 1051, 1093, 1139, 1219, 1273>>

\* qr.make(fit=True) finds a version for the data; it raises DataOverflowError
\* when the data is longer than version 40 holds
QrEncodable(data) == ByteLen(data) <= QrByteCapacityH[Len(QrByteCapacityH)]

\* the version make(fit=True) settles on: the smallest that holds the data
QrVersion(data) ==
    CHOOSE v \in 1..Len(QrByteCapacityH) :
      /\ ByteLen(data) <= QrByteCapacityH[v]
      /\ \A u \in 1..(v - 1) : ByteLen(data) > QrByteCapacityH[u]

\* box_size and border of lines 729-730
QrBoxSize == 10
QrBorder == 4

\* the modules on a side of the drawn symbol, the border on both sides included
QrSide(version) == 17 + 4 * version + 2 * QrBorder

\* img.resize((size, size)) raises ValueError unless size is positive
Resizable(size) == size > 0

\* the handler of lines 743-745
QrExceptReraise == Raised
QrExcept == None

\* lines 726-742: the symbol of data, drawn with QrBoxSize pixels a module
\* and resized to size x size
generate_qr_codeNoResize(data, size) ==
    IF QrEncodable(data)
    THEN DataUri("image/png", [data |-> data, version |-> QrVersion(data),
                               side |-> QrSide(QrVersion(data)),
                               fill_color |-> QrFillColor, back_color |-> "white",
                               width |-> QrBoxSize * QrSide(QrVersion(data)),
                               height |-> QrBoxSize * QrSide(QrVersion(data))])
    ELSE QrExcept
generate_qr_code(data, size) ==
    IF QrEncodable(data) /\ Resizable(size)
    THEN DataUri("image/png", [data |-> data, version |-> QrVersion(data),
                               side |-> QrSide(QrVersion(data)),
                               fill_color |-> QrFillColor, back_color |-> "white",
                               width |-> size, height |-> size])
    ELSE QrExcept

QrFrame(data, size) == [data |-> data, size |-> size]

\* generate_qr_code(data, size) called on its own
QrGenerate ==
    /\ pc = "qr_call"
    /\ Return(generate_qr_code(qr_f.data, qr_f.size))
    /\ log' = [log EXCEPT !.caught = IF QrEncodable(qr_f.data) /\ Resizable(qr_f.size)
                                     THEN @ ELSE @ \cup {"qr"}]
    /\ UNCHANGED <<url, qr_f, generator, threads, site, orch, colors_f, logo_f, images_f>>

(***************************************************************************)
(* generate_company_headline(company_name, url)                            *)
(***************************************************************************)
DefaultHeadline == "Professional Company Brochure"

\* lines 682-707: the headline of the language model, or the default when
\* the page fetch or the model call raises
generate_company_headline(raises) ==
    IF raises THEN DefaultHeadline ELSE "A generated headline"

(***************************************************************************)
(* generate_interactive_html(brochure_content, company_name, company_url)  *)
(***************************************************************************)
\* max_images of the call of line 774
CallMaxImages == 6

\* 'if company_url' of lines 761, 764, 771, 774 and 778
RunsStagesAlways(company_url) == TRUE
RunsStages(company_url) == company_url # ""

EmptyOrch ==
    [company_headline |-> DefaultHeadline, brand_colors |-> DefaultColors,
     logo_data |-> None, images |-> <<>>, qr_code_data |-> None]

\* what the orchestrator does with the value a stage returned: an exception
\* that left the stage leaves generate_interactive_html too
AfterStage(value, next) == IF value = Raised THEN "aborted" ELSE next

\* lines 761-768: the headline, then the call of extract_brand_colors; with
\* an empty company_url no stage is run (lines 764, 771, 774, 778)
OrchHeadline ==
    /\ pc = "orch_start"
    /\ IF RunsStages(url)
       THEN /\ \E raises \in BOOLEAN :
                 /\ orch' = [EmptyOrch EXCEPT
                               !.company_headline = generate_company_headline(raises)]
                 /\ log' = [log EXCEPT !.ran = @ \cup {"headline", "colors"},
                                       !.caught = IF raises THEN @ \cup {"headline"} ELSE @]
            /\ stack' = <<"orch_colors">> \o stack
            /\ pc' = "colors_start"
       ELSE /\ orch' = EmptyOrch
            /\ pc' = "orch_render"
            /\ UNCHANGED <<stack, log>>
    /\ UNCHANGED <<url, qr_f, generator, threads, site, colors_f, logo_f, images_f, ret>>

\* lines 764-771: brand_colors is assigned, extract_company_logo called
OrchColors ==
    /\ pc = "orch_colors"
    /\ pc' = AfterStage(ret, "logo_get")
    /\ IF ret = Raised
       THEN UNCHANGED <<orch, stack, log>>
       ELSE /\ orch' = [orch EXCEPT !.brand_colors = ret.colors]
            /\ stack' = <<"orch_logo">> \o stack
            /\ log' = [log EXCEPT !.ran = @ \cup {"logo"}]
    /\ UNCHANGED <<url, qr_f, generator, threads, site, colors_f, logo_f, images_f, ret>>

\* lines 771-774: logo_data is assigned, extract_company_images called
OrchLogo ==
    /\ pc = "orch_logo"
    /\ pc' = AfterStage(ret, "images_get")
    /\ IF ret = Raised
       THEN UNCHANGED <<orch, stack, log, images_f>>
       ELSE /\ orch' = [orch EXCEPT !.logo_data = ret]
            /\ stack' = <<"orch_images">> \o stack
            /\ images_f' = ImagesFrame(CallMaxImages)
            /\ log' = [log EXCEPT !.ran = @ \cup {"images"}]
    /\ UNCHANGED <<url, qr_f, generator, threads, site, colors_f, logo_f, ret>>

\* lines 774-781: images is assigned, the QR code generated
OrchImages ==
    /\ pc = "orch_images"
    /\ IF ret = Raised
       THEN /\ pc' = "aborted"
            /\ UNCHANGED <<orch, log>>
       ELSE LET qr_code_data == generate_qr_code(url, DefaultQrSize)
            IN  /\ pc' = AfterStage(qr_code_data, "orch_render")
                /\ orch' = [orch EXCEPT !.images = ret.images,
                                        !.qr_code_data = qr_code_data]
                /\ log' = [log EXCEPT !.ran = @ \cup {"qr"},
                                      !.caught = IF QrEncodable(url) THEN @
                                                 ELSE @ \cup {"qr"}]
    /\ UNCHANGED <<stack, url, qr_f, generator, threads, site, colors_f, logo_f, images_f, ret>>

\* lines 789-823 and 841-843: what the page is made of
Html(o) ==
    [tag |-> "html",
     logo_html |-> IF o.logo_data # None THEN "company-logo" ELSE "company-logo-fallback",
     logo_src |-> o.logo_data,
     gallery |-> o.images,
     qr_section |-> o.qr_code_data,
     css_vars |-> o.brand_colors]

\* lines 783-1307: the page is assembled and returned
OrchRender ==
    /\ pc = "orch_render"
    /\ Return(Html(orch))
    /\ UNCHANGED <<url, qr_f, generator, threads, site, orch, colors_f, logo_f, images_f, log>>

NextOrch ==
    \/ OrchHeadline
    \/ OrchColors
    \/ OrchLogo
    \/ OrchImages
    \/ OrchRender

(***************************************************************************)
(* app.py: the module-level generator and the request handlers             *)
(***************************************************************************)
\* the server threads (app.run(..., threaded=True)), one request each
Threads == {"t1", "t2"}

\* the BrochureGenerator that the request of thread t constructed
Instance(t) == [tag |-> "BrochureGenerator", by |-> t]

\* str.strip() of a text, the text a sequence of characters
RECURSIVE LStrip(_)
LStrip(s) == IF s # <<>> /\ Head(s) = " " THEN LStrip(Tail(s)) ELSE s

RECURSIVE RStrip(_)
RStrip(s) == IF s # <<>> /\ s[Len(s)] = " " THEN RStrip(SubSeq(s, 1, Len(s) - 1)) ELSE s

Strip(s) == RStrip(LStrip(s))

\* a key of the JSON body: absent, or present with a text
Absent == [present |-> FALSE, text |-> <<>>]
Present(text) == [present |-> TRUE, text |-> text]

\* data.get(key, default)
Get(data, key, default) == IF data[key].present THEN data[key].text ELSE default

\* line 48: not company_name or not url
InvalidBoth(company_name, company_url) == company_name = <<>> /\ company_url = <<>>
Invalid(company_name, company_url) == company_name = <<>> \/ company_url = <<>>

\* a str that create_brochure returned
Str(chars) == [tag |-> "str", chars |-> chars]

\* 'if brochure_content:' (line 58)
Truthy(content) == content # None /\ content.chars # <<>>

\* jsonify(...) with its status code
Response(status, success, error) ==
    [tag |-> "response", status |-> status, success |-> success, error |-> error]

\* lines 37-40 and 105-108: the answer when init_generator() returned False
InitFailed(route) ==
    IF route = "/generate"
    THEN Response(500, FALSE,
                  "Failed to initialize AI generator. Please check your API key in .env file.")
    ELSE Response(500, FALSE, "Failed to initialize generator")

\* where a handler goes on after init_generator() returned True
AfterInit(route) == IF route = "/generate" THEN "gen_validate" ELSE "int_call"

IdleThread ==
    [pc |-> "idle", route |-> "none",
     data |-> [company_name |-> Absent, url |-> Absent, markdown |-> Absent],
     init |-> "none", built |-> FALSE, called |-> FALSE, used |-> None,
     brochure_content |-> None, response |-> None]

\* the handler of thread t answers and the request is over
Respond(t, response) ==
    threads' = [threads EXCEPT ![t].pc = "done", ![t].response = response]

\* the texts a client sends for a name or a URL
NameTexts == {<<>>, <<" ", " ">>, <<"A", "c", "m", "e">>, <<" ", "A", "c", "m", "e", " ">>}
UrlTexts == {<<>>, <<" ">>, <<"h", "t", "t", "p", "s", ":", "/", "/", "a", ".", "i", "o">>}

\* the JSON bodies of the requests to a route
Bodies(route) ==
    IF route = "/generate"
    THEN {[company_name |-> n, url |-> u, markdown |-> Absent] :
            n \in {Absent} \cup {Present(x) : x \in NameTexts},
            u \in {Absent} \cup {Present(x) : x \in UrlTexts}}
    ELSE {[company_name |-> Present(<<"A", "c", "m", "e">>), url |-> Absent, markdown |-> m] :
            m \in {Absent, Present(<<>>), Present(<<"#", " ", "A", "c", "m", "e">>)}}

\* what create_brochure returns: None after an exception (lines 211-213),
\* or the content of the model's message, a text that can be empty
Contents == {None, Str(<<>>), Str(<<"#", " ", "A", "c", "m", "e">>)}

\* a request arrives at thread t: lines 31-36 of /generate, lines 85-90 of
\* /generate-interactive-html
Receive(t) ==
    /\ pc = "app"
    /\ threads[t].pc = "idle"
    /\ \E route \in {"/generate", "/generate-interactive-html"} :
         \E data \in Bodies(route) :
           threads' = [threads EXCEPT
                         ![t].route = route,
                         ![t].data = data,
                         ![t].pc = IF route = "/generate" THEN "init_check"
                                   ELSE "int_validate"]
    /\ UNCHANGED <<generator, pc, stack, url, qr_f, site, orch, colors_f, logo_f, images_f,
                   ret, log>>

\* line 16 of init_generator: 'if generator is None'; when it is not, line 20
\* returns True
InitCheck(t) ==
    /\ pc = "app"
    /\ threads[t].pc = "init_check"
    /\ threads' = IF generator = None
                  THEN [threads EXCEPT ![t].pc = "init_build"]
                  ELSE [threads EXCEPT ![t].pc = AfterInit(threads[t].route),
                                       ![t].init = "true"]
    /\ UNCHANGED <<generator, pc, stack, url, qr_f, site, orch, colors_f, logo_f, images_f,
                   ret, log>>

\* lines 17-24: BrochureGenerator() is constructed and assigned to the
\* module-level name, or it raises (no API key) and init_generator returns
\* False
InitBuild(t) ==
    /\ pc = "app"
    /\ threads[t].pc = "init_build"
    /\ \E raises \in BOOLEAN :
         IF raises
         THEN /\ threads' = [threads EXCEPT ![t].pc = "done",
                                            ![t].init = "false",
                                            ![t].response = InitFailed(threads[t].route)]
              /\ UNCHANGED generator
         ELSE /\ generator' = Instance(t)
              /\ threads' = [threads EXCEPT ![t].pc = AfterInit(threads[t].route),
                                            ![t].init = "true",
                                            ![t].built = TRUE]
    /\ UNCHANGED <<pc, stack, url, qr_f, site, orch, colors_f, logo_f, images_f, ret, log>>

\* lines 42-52 of /generate: the fields are read, stripped and tested
GenerateValidate(t) ==
    /\ pc = "app"
    /\ threads[t].pc = "gen_validate"
    /\ LET company_name == Strip(Get(threads[t].data, "company_name", <<>>))
           company_url == Strip(Get(threads[t].data, "url", <<>>))
       IN  IF Invalid(company_name, company_url)
           THEN Respond(t, Response(400, FALSE, "Company name and URL are required"))
           ELSE threads' = [threads EXCEPT ![t].pc = "gen_call"]
    /\ UNCHANGED <<generator, pc, stack, url, qr_f, site, orch, colors_f, logo_f, images_f,
                   ret, log>>

\* line 56: generator.create_brochure(company_name, url), on the instance
\* the module-level name holds at that moment
GenerateCall(t) ==
    /\ pc = "app"
    /\ threads[t].pc = "gen_call"
    /\ \E content \in Contents :
         threads' = [threads EXCEPT ![t].pc = "gen_respond",
                                    ![t].called = TRUE,
                                    ![t].used = generator,
                                    ![t].brochure_content = content]
    /\ UNCHANGED <<generator, pc, stack, url, qr_f, site, orch, colors_f, logo_f, images_f,
                   ret, log>>

\* lines 58-83: the answer of /generate; markdown.markdown can raise
GenerateRespond(t) ==
    /\ pc = "app"
    /\ threads[t].pc = "gen_respond"
    /\ IF Truthy(threads[t].brochure_content)
       THEN \E raises \in BOOLEAN :
              IF raises
              THEN Respond(t, Response(500, FALSE, "Error: (the exception)"))
              ELSE Respond(t, Response(200, TRUE, "none"))
       ELSE Respond(t, Response(500, FALSE, "Failed to generate brochure content"))
    /\ UNCHANGED <<generator, pc, stack, url, qr_f, site, orch, colors_f, logo_f, images_f,
                   ret, log>>

\* lines 91-104 of /generate-interactive-html: the content is required, then
\* init_generator is called
InteractiveValidate(t) ==
    /\ pc = "app"
    /\ threads[t].pc = "int_validate"
    /\ IF Get(threads[t].data, "markdown", <<>>) = <<>>
       THEN Respond(t, Response(400, FALSE, "No content provided"))
       ELSE threads' = [threads EXCEPT ![t].pc = "init_check"]
    /\ UNCHANGED <<generator, pc, stack, url, qr_f, site, orch, colors_f, logo_f, images_f,
                   ret, log>>

\* lines 110-129: generator.generate_interactive_html(...) and the answer
InteractiveCall(t) ==
    /\ pc = "app"
    /\ threads[t].pc = "int_call"
    /\ \E raises \in BOOLEAN :
         threads' = [threads EXCEPT
                       ![t].pc = "done",
                       ![t].called = TRUE,
                       ![t].used = generator,
                       ![t].response = IF raises
                                       THEN Response(500, FALSE, "(the exception)")
                                       ELSE Response(200, TRUE, "none")]
    /\ UNCHANGED <<generator, pc, stack, url, qr_f, site, orch, colors_f, logo_f, images_f,
                   ret, log>>

NextApp ==
    \E t \in Threads :
      \/ Receive(t)
      \/ InitCheck(t)
      \/ InitBuild(t)
      \/ GenerateValidate(t)
      \/ GenerateCall(t)
      \/ GenerateRespond(t)
      \/ InteractiveValidate(t)
      \/ InteractiveCall(t)

(***************************************************************************)
(* Inputs                                                                  *)
(***************************************************************************)
Blue == <<10, 20, 200>>
Orange == <<240, 120, 10>>
Green == <<20, 160, 60>>
Gray == <<128, 128, 128>>

Undecodable == [decodable |-> FALSE, quant |-> <<>>]

\* the quantized palettes of the logo images: none (no opaque non-white
\* pixel), and palettes with and without colours that are not vibrant
Quants == {<<>>, <<Blue>>, <<Gray, Blue>>, <<Blue, Orange, Green>>,
           <<Blue, Gray, Orange, Green>>, <<Gray, Blue, Orange>>}

PngLogo(q) == [ctype |-> "image/png", body |-> [decodable |-> TRUE, quant |-> q]]

\* what a logo URL can serve: images, an image sent as a download, a page of
\* text, bytes without a type
LogoFiles ==
    {PngLogo(q) : q \in Quants}
      \cup {[ctype |-> "application/octet-stream",
             body |-> [decodable |-> TRUE, quant |-> <<Blue, Orange, Green>>]],
            [ctype |-> "text/html", body |-> Undecodable],
            [ctype |-> NoAttr, body |-> Undecodable]}

\* six-digit literals as the page writes them
CssLiterals == {<<"1", "a", "2", "b", "c", "c">>, <<"8", "0", "8", "0", "8", "0">>,
                <<"C", "C", "2", "2", "0", "0">>, <<"f", "f", "f", "f", "f", "f">>}

\* literals that survive is_brand_color, one of them in two spellings
RankLiterals == {<<"1", "a", "2", "b", "c", "c">>, <<"1", "A", "2", "B", "C", "C">>,
                 <<"C", "C", "2", "2", "0", "0">>, <<"0", "0", "a", "a", "5", "5">>,
                 <<"f", "f", "8", "8", "0", "0">>}

\* the sequences over S of length at most n
SeqsUpTo(S, n) == UNION {[1..k -> S] : k \in 0..n}

MaxCss == 2
MaxRanked == 3
MaxSelUsed == 2
MaxImgs == 3
MaxMaxImages == 3

\* the elements one selector can match, in document order
ElemLists == {<<>>, <<NoAttr>>, <<"/sel-a.png">>, <<NoAttr, "/sel-b.png">>}

EmptyPage == [og |-> NoTag, sels |-> <<>>, icon |-> NoTag, shortcut |-> NoTag,
              css |-> <<>>, imgs |-> <<>>]

Ok200 == [raised |-> FALSE, status |-> 200]

Photo == [size |-> 20000, decodable |-> TRUE, truncated |-> FALSE, width |-> 640,
          height |-> 480, mode |-> "RGB", transparent |-> FALSE, white |-> FALSE]

\* an element that passes every filter
GoodImg == [srcs |-> <<"/img/team.jpg", NoAttr, NoAttr, NoAttr>>, width |-> NoAttr,
            height |-> NoAttr, alt |-> "Our team", class |-> "hero", net |-> Ok200,
            file |-> Photo]

\* elements that pass every filter, of several sizes and shapes
GoodImgs ==
    {GoodImg,
     [GoodImg EXCEPT !.srcs = <<NoAttr, NoAttr, "/img/lab.jpg", NoAttr>>,
                     !.file = [Photo EXCEPT !.width = 300, !.height = 200]],
     [GoodImg EXCEPT !.srcs = <<"https://cdn.acme.test/office.jpg", NoAttr, NoAttr, NoAttr>>,
                     !.width = "640px", !.height = "200",
                     !.file = [Photo EXCEPT !.width = 1600, !.height = 1200, !.mode = "RGBA"]],
     [GoodImg EXCEPT !.srcs = <<"/img/banner.jpg", NoAttr, NoAttr, NoAttr>>,
                     !.width = "auto",  !.height = "100px",
                     !.file = [Photo EXCEPT !.width = 3000, !.height = 200]],
     [GoodImg EXCEPT !.srcs = <<"/img/tower.jpg", NoAttr, NoAttr, NoAttr>>,
                     !.file = [Photo EXCEPT !.width = 300, !.height = 3000, !.mode = "P"]]}

\* elements that pass every filter, one for each colour mode of the file
ImageModes == {"RGB", "RGBA", "LA", "P", "L", "CMYK", "1", "YCbCr"}
ModeImgs ==
    {[GoodImg EXCEPT !.srcs = <<"/img/plant.jpg", NoAttr, NoAttr, NoAttr>>,
                     !.file = [Photo EXCEPT !.mode = m]] : m \in ImageModes}

\* elements that differ in their width and height attributes only
AttrImgs ==
    {[GoodImg EXCEPT !.width = w, !.height = h] :
        w \in {NoAttr, "199", "200", "640px", "auto"},
        h \in {NoAttr, "149", "150", "100px", "auto"}}

\* elements that fail one filter each
BadImgs ==
    {[GoodImg EXCEPT !.srcs = <<NoAttr, NoAttr, NoAttr, NoAttr>>],
     [GoodImg EXCEPT !.srcs = <<"/img/wave.svg", NoAttr, NoAttr, NoAttr>>],
     [GoodImg EXCEPT !.srcs = <<"data:image/png;base64,iVBORw0KGgo=", NoAttr, NoAttr, NoAttr>>],
     [GoodImg EXCEPT !.width = "640px", !.height = "149"],
     [GoodImg EXCEPT !.alt = "Company Logo"],
     [GoodImg EXCEPT !.srcs = <<"ftp://files.acme.test/plan.jpg", NoAttr, NoAttr, NoAttr>>],
     [GoodImg EXCEPT !.net = [raised |-> TRUE, status |-> 0]],
     [GoodImg EXCEPT !.net = [raised |-> FALSE, status |-> 404]],
     [GoodImg EXCEPT !.file = [Photo EXCEPT !.size = 9999]],
     [GoodImg EXCEPT !.file = [Photo EXCEPT !.decodable = FALSE]],
     [GoodImg EXCEPT !.file = [Photo EXCEPT !.width = 299]],
     [GoodImg EXCEPT !.file = [Photo EXCEPT !.mode = "RGBA", !.transparent = TRUE]],
     [GoodImg EXCEPT !.file = [Photo EXCEPT !.truncated = TRUE]],
     [GoodImg EXCEPT !.file = [Photo EXCEPT !.white = TRUE]]}

\* elements that differ in the status of the download and in the length of
\* the body only
DownloadImgs ==
    {[GoodImg EXCEPT !.net = [raised |-> FALSE, status |-> s],
                     !.file = [Photo EXCEPT !.size = n]] :
        s \in {200, 204, 206, 404, 500},
        n \in {0, 9999, 10000, 10001, 4999999, 5000000, 5000001}}

\* the elements of the longer pages: those that pass, and some that fail
\* before the download, at the download and after it
ScanImgs ==
    GoodImgs \cup
    {[GoodImg EXCEPT !.alt = "Company Logo"],
     [GoodImg EXCEPT !.width = "640px", !.height = "149"],
     [GoodImg EXCEPT !.net = [raised |-> TRUE, status |-> 0]],
     [GoodImg EXCEPT !.file = [Photo EXCEPT !.size = 9999]],
     [GoodImg EXCEPT !.file = [Photo EXCEPT !.width = 299]]}

ShortUrl == "https://acme.test"

EmptyLog == [requests |-> <<>>, consulted |-> <<>>, caught |-> {}, ran |-> {},
             strategy |-> "none", inner |-> {}, filled |-> {}, scanned |-> <<>>]

\* the state in which function entry is called with company URL u on site s
Called(entry, u, s, max_images) ==
    /\ pc = entry
    /\ stack = <<>>
    /\ url = u
    /\ site = s
    /\ orch = EmptyOrch
    /\ colors_f = EmptyColorsFrame
    /\ logo_f = EmptyLogoFrame
    /\ images_f = ImagesFrame(max_images)
    /\ qr_f = QrFrame(u, DefaultQrSize)
    /\ ret = None
    /\ log = EmptyLog
    /\ generator = None
    /\ threads = [t \in Threads |-> IdleThread]

(***************************************************************************)
(* Specifications                                                          *)
(***************************************************************************)
\* extract_company_logo on pages with every shape of logo markup
LogoSites ==
    {[page |-> [EmptyPage EXCEPT !.og = og, !.sels = sels, !.icon = icon,
                                 !.shortcut = shortcut],
      logo_file |-> f] :
        og \in {NoTag, NoAttr, "/og.png"},
        sels \in SeqsUpTo(ElemLists, MaxSelUsed),
        icon \in {NoTag, NoAttr, "/favicon.ico"},
        shortcut \in {NoTag, "/shortcut.ico"},
        f \in {PngLogo(<<Blue, Orange, Green>>),
               [ctype |-> "text/html", body |-> Undecodable],
               [ctype |-> NoAttr, body |-> Undecodable]}}

InitLogo == \E s \in LogoSites : Called("logo_get", ShortUrl, s, CallMaxImages)

SpecLogo == InitLogo /\ [][NextLogo]_vars

\* extract_brand_colors on pages with and without a logo and colours
ColorSites ==
    {[page |-> [EmptyPage EXCEPT !.og = og, !.css = css], logo_file |-> f] :
        og \in {NoTag, "/og.png"},
        css \in SeqsUpTo(CssLiterals, MaxCss),
        f \in LogoFiles}
      \cup {[page |-> [EmptyPage EXCEPT !.css = css], logo_file |-> PngLogo(<<Blue>>)] :
              css \in SeqsUpTo(RankLiterals, MaxRanked)}

InitColors == \E s \in ColorSites : Called("colors_start", ShortUrl, s, CallMaxImages)

NextColorsCall == NextColors \/ NextLogo

SpecColors == InitColors /\ [][NextColorsCall]_vars

\* extract_company_images on pages of up to MaxImgs elements
ImageSites ==
    {[page |-> [EmptyPage EXCEPT !.imgs = imgs], logo_file |-> PngLogo(<<Blue>>)] :
        imgs \in SeqsUpTo(ScanImgs, MaxImgs)
                   \cup {<<img>> : img \in GoodImgs \cup BadImgs \cup ModeImgs \cup AttrImgs
                                              \cup DownloadImgs}}

InitImages ==
    \E s \in ImageSites, max_images \in 0..MaxMaxImages :
        Called("images_get", ShortUrl, s, max_images)

SpecImages == InitImages /\ [][NextImages]_vars

\* is_vibrant on the colours of a palette, one call after the other (line
\* 328): triples around the thresholds of the two tests, and grays
VibrantTriples ==
    {<<r, g, b>> : r \in {19, 20, 21, 100, 128}, g \in {30, 119, 120, 121, 128},
                   b \in {40, 110, 128}}
      \cup {<<r, 240, 250>> : r \in {229, 230, 231}}
      \cup {<<0, 0, 0>>, <<255, 255, 255>>}

\* the verdict of a call, with the triple and the verdict of the call before
Verdict(rgb, before) ==
    [tag |-> "verdict", rgb |-> rgb, verdict |-> is_vibrant(rgb),
     prev |-> IF before.tag = "verdict"
              THEN [tag |-> "verdict", rgb |-> before.rgb, verdict |-> before.verdict]
              ELSE None]

\* line 328: is_vibrant(c) for the next colour c
VibrantCall ==
    /\ pc = "vibrant"
    /\ \E rgb \in VibrantTriples : ret' = Verdict(rgb, ret)
    /\ UNCHANGED <<pc, stack, url, qr_f, generator, threads, site, orch, colors_f, logo_f, images_f, log>>

InitVibrant ==
    Called("vibrant", ShortUrl, [page |-> EmptyPage, logo_file |-> PngLogo(<<Blue>>)],
           CallMaxImages)

SpecVibrant == InitVibrant /\ [][VibrantCall]_vars

\* generate_qr_code on data of 1 to 100 bytes and on data too long for any
\* symbol, for sizes from none to large
QrData ==
    {"a", "acme.io", "acme.com", ShortUrl, "https://acme.test/products/catalogue",
     "https://acme.test/products/catalogue?ref=newsletter&lang=en",
     "https://acme.test/products/catalogue?ref=newsletter&lang=en&utm_campaign=spring-sale-2024",
     LongUrl}

QrSizes == {0, 1, 20, 37, 111, 147, 200, 400, 1000}

InitQr ==
    /\ \E data \in QrData, size \in QrSizes : qr_f = QrFrame(data, size)
    /\ pc = "qr_call"
    /\ stack = <<>>
    /\ url = ShortUrl
    /\ site = [page |-> EmptyPage, logo_file |-> PngLogo(<<Blue>>)]
    /\ orch = EmptyOrch
    /\ colors_f = EmptyColorsFrame
    /\ logo_f = EmptyLogoFrame
    /\ images_f = ImagesFrame(CallMaxImages)
    /\ ret = None
    /\ log = EmptyLog
    /\ generator = None
    /\ threads = [t \in Threads |-> IdleThread]

SpecQr == InitQr /\ [][QrGenerate]_vars

\* generate_interactive_html
Sites ==
    {[page |-> [EmptyPage EXCEPT !.og = og, !.css = css, !.imgs = imgs], logo_file |-> f] :
        og \in {NoTag, "/og.png"},
        css \in {<<>>, <<<<"1", "a", "2", "b", "c", "c">>>>},
        imgs \in {<<>>, <<GoodImg>>, <<[GoodImg EXCEPT !.net = [raised |-> TRUE, status |-> 0]]>>,
                   <<[GoodImg EXCEPT !.net = [raised |-> TRUE, status |-> 0]], GoodImg>>},
        f \in {PngLogo(<<Blue, Orange, Green>>), [ctype |-> "text/html", body |-> Undecodable]}}

CompanyUrls == {"", ShortUrl, LongUrl}

Init == \E s \in Sites, u \in CompanyUrls : Called("orch_start", u, s, CallMaxImages)

Next == NextOrch \/ NextColors \/ NextLogo \/ NextImages

Spec == Init /\ [][Next]_vars

\* the server: requests to both routes on two threads, in every interleaving
\* of the handlers' steps
InitApp ==
    Called("app", ShortUrl, [page |-> EmptyPage, logo_file |-> PngLogo(<<Blue>>)],
           CallMaxImages)

SpecApp == InitApp /\ [][NextApp]_vars

(***************************************************************************)
(* Properties                                                              *)
(***************************************************************************)
HexChars == {HexDigits[i] : i \in 1..16} \cup {UpperDigits[i] : i \in 1..16}

\* c is "#" followed by six hexadecimal digits
IsColorString(c) ==
    /\ Len(c) = 7
    /\ c[1] = "#"
    /\ \A i \in 2..7 : c[i] \in HexChars

Slots == {"primary", "secondary", "accent"}

\* extract_brand_colors has returned to the caller of its specification
ColorsReturned == pc = "done" /\ ret.tag = "colors"

\* C1: whatever the logo, the page and the network do, the palette that
\* extract_brand_colors returns has exactly the slots primary, secondary and
\* accent, each a colour string, and a slot that no strategy assigned holds
\* its default.
C1_PaletteComplete ==
    pc = "done" =>
      /\ ret.tag = "colors"
      /\ DOMAIN ret.colors = Slots
      /\ \A slot \in Slots :
           /\ IsColorString(ret.colors[slot])
           /\ slot \notin log.filled => ret.colors[slot] = DefaultColors[slot]

\* a palette with an assigned primary colour and the other slots left alone
C1_Witness ==
    /\ ColorsReturned
    /\ log.filled = {"primary"}
    /\ ret.colors.primary # DefaultPrimary
    /\ ret.colors.secondary = DefaultSecondary
    /\ ret.colors.accent = DefaultAccent

\* the elements of the page that pass every filter, in document order
QualifyingImgs == SelectSeq(site.page.imgs, LAMBDA img : Qualifies(img, url))

\* extract_company_images has returned after the page was fetched
ImagesScanned == pc = "done" /\ ret.tag = "images" /\ "images" \notin log.caught

\* C2: for every page and every max_images (a count: 0, 1, 2, ...) the list
\* of extract_company_images is never longer than max_images, during the
\* scan and when it is returned.
C2_AtMostMaxImages ==
    /\ Len(images_f.images) <= images_f.max_images
    /\ (pc = "done" /\ ret.tag = "images") => Len(ret.images) <= images_f.max_images

\* the limit was reached with qualifying elements left over
C2_Witness ==
    /\ ImagesScanned
    /\ images_f.max_images >= 1
    /\ Len(ret.images) = images_f.max_images
    /\ Len(QualifyingImgs) > images_f.max_images

\* C3, as claimed: every returned image is at least 300 wide and 200 high
\* after the downscale to fit 800x600.
C3_Claimed ==
    ImagesScanned =>
      \A k \in 1..Len(ret.images) :
        /\ ret.images[k].content.width >= MinWidth
        /\ ret.images[k].content.height >= MinHeight

\* the aspect ratio w : h lies between 1 : 2 and 4 : 1
ModerateAspect(w, h) == 2 * w >= h /\ w <= 4 * h

\* C3, amended: every returned image is the encoding of an element whose
\* source image is at least 300 wide and 200 high; after the downscale it
\* fits 800x600, and it is at least 300 wide and 200 high when the source
\* fits 800x600 already or has an aspect ratio between 1:2 and 4:1.
C3_SourceAtLeastMinimum ==
    ImagesScanned =>
      \A k \in 1..Len(ret.images) :
        \E j \in 1..Len(site.page.imgs) :
          LET img == site.page.imgs[j]
              out == ret.images[k].content
          IN  /\ ret.images[k] = Encoded(img, url)
              /\ img.file.width >= MinWidth /\ img.file.height >= MinHeight
              /\ out.width <= ThumbWidth /\ out.height <= ThumbHeight
              /\ out.width >= 1 /\ out.height >= 1
              /\ (img.file.width <= ThumbWidth /\ img.file.height <= ThumbHeight)
                   => (out.width = img.file.width /\ out.height = img.file.height)
              /\ ModerateAspect(img.file.width, img.file.height)
                   => (out.width >= MinWidth /\ out.height >= MinHeight)

\* a downscaled image is returned
C3_Witness ==
    /\ ImagesScanned
    /\ \E k \in 1..Len(ret.images), j \in 1..Len(site.page.imgs) :
         /\ ret.images[k] = Encoded(site.page.imgs[j], url)
         /\ site.page.imgs[j].file.width > ThumbWidth
         /\ ret.images[k].content.width = ThumbWidth
         /\ ret.images[k].content.height = ThumbHeight

\* C4: the result is the encodings of the first min(k, max_images) qualifying
\* elements of the page, in document order (k the number that qualify).
C4_FirstQualifyingInOrder ==
    ImagesScanned =>
      LET n == Min2(Len(QualifyingImgs), images_f.max_images)
      IN  ret.images = [k \in 1..n |-> Encoded(QualifyingImgs[k], url)]

\* two different images were returned and a third qualifying one was cut
C4_Witness ==
    /\ ImagesScanned
    /\ Len(ret.images) = 2
    /\ ret.images[1] # ret.images[2]
    /\ Len(QualifyingImgs) = 3
    /\ Len(site.page.imgs) = 3

\* every request made so far raised (unreachable host), and some were made
AllRequestsFailed ==
    /\ log.requests # <<>>
    /\ \A k \in 1..Len(log.requests) : log.requests[k].outcome.raised

\* generate_interactive_html is over for a non-empty company URL
PipelineOver == pc \in {"done", "aborted"} /\ url # ""

\* C5, as claimed: when every network call fails the pipeline completes with
\* no logo, the default palette, no image and a QR code.
C5_Claimed ==
    (PipelineOver /\ AllRequestsFailed) =>
      /\ pc = "done"
      /\ orch.logo_data = None
      /\ orch.brand_colors = DefaultColors
      /\ orch.images = <<>>
      /\ orch.qr_code_data # None

\* C5, amended: when every network call fails the pipeline completes with no
\* logo, the default palette, no image, and a QR code of the company URL if
\* the URL fits a QR symbol; for a longer URL the QR code is none.
C5_AllNetworkFails ==
    (PipelineOver /\ AllRequestsFailed) =>
      /\ pc = "done"
      /\ ret.tag = "html"
      /\ orch.logo_data = None
      /\ orch.brand_colors = DefaultColors
      /\ orch.images = <<>>
      /\ QrEncodable(url) =>
           (orch.qr_code_data.tag = "data" /\ orch.qr_code_data.content.data = url)
      /\ ~QrEncodable(url) => orch.qr_code_data = None

\* the host was unreachable for a page that has a logo, colours and an image
C5_Witness ==
    /\ pc = "done" /\ url = ShortUrl
    /\ AllRequestsFailed
    /\ Len(log.requests) = 4
    /\ site.page.og # NoTag /\ site.page.css # <<>> /\ site.page.imgs # <<>>
    /\ orch.qr_code_data # None

Stages == {"headline", "colors", "logo", "images", "qr"}

\* C6: no exception leaves a stage, every stage of the orchestration is run
\* whatever failed before it, and a stage whose own handler caught a failure
\* gave its default (default headline, default palette, none, empty list).
C6_StagesIsolated ==
    /\ pc # "aborted"
    /\ ret # Raised
    /\ (pc \in {"orch_render", "done"} /\ url # "") =>
         /\ log.ran = Stages
         /\ "headline" \in log.caught => orch.company_headline = DefaultHeadline
         /\ "colors" \in log.caught => orch.brand_colors = DefaultColors
         /\ "logo" \in log.caught => orch.logo_data = None
         /\ "images" \in log.caught => orch.images = <<>>
         /\ "qr" \in log.caught => orch.qr_code_data = None

\* the logo and the image stage failed, the palette and the QR code are there
C6_Witness ==
    /\ pc = "done"
    /\ {"logo", "images"} \subseteq log.caught
    /\ "colors" \notin log.caught /\ "qr" \notin log.caught
    /\ orch.brand_colors # DefaultColors
    /\ orch.qr_code_data # None

\* the CSS strategy was tried: the page was requested by extract_brand_colors
CssTried == \E k \in 1..Len(log.requests) : log.requests[k].fn = "colors"

\* it raised, or no colour of the page survived the filter
CssYieldedNothing ==
    \/ "colors" \in log.caught
    \/ FilteredColors(AllColors(site.page.css)) = <<>>

\* C7, as claimed: when the logo strategy did not return a palette (no usable
\* logo, or a failure while its colours were extracted) and the CSS strategy
\* yields nothing, the palette returned is the full default palette.
C7_Claimed ==
    (ColorsReturned /\ CssTried /\ CssYieldedNothing) => ret.colors = DefaultColors

\* C8, as claimed: the QR code is drawn in the primary colour of the palette
\* extracted for the same URL, on white.
C8_Claimed ==
    (pc = "done" /\ orch.qr_code_data # None) =>
      /\ orch.qr_code_data.content.fill_color = orch.brand_colors.primary
      /\ orch.qr_code_data.content.back_color = "white"

\* the download of the chosen logo URL, if it was made
LogoDownloads ==
    SelectSeq(log.requests, LAMBDA r : r.fn = "logo" /\ r.target # "page")

\* C9, as claimed: a logo is returned only for a download that succeeded with
\* a payload that decodes as an image.
C9_Claimed ==
    (pc = "done" /\ ret # None) =>
      /\ LogoDownloads # <<>>
      /\ ~LogoDownloads[1].outcome.raised
      /\ LogoDownloads[1].outcome.status = 200
      /\ site.logo_file.body.decodable

\* the URL the strategy chain yields: og:image, else the first selector that
\* has one, else the favicon
ChainUrl(soup) ==
    IF MetaImageContent(soup) # NoUrl THEN MetaImageContent(soup)
    ELSE IF \E i \in 1..NumSelectors : SelectOneSrc(soup, i) # NoUrl
    THEN SelectOneSrc(soup, CHOOSE i \in 1..NumSelectors :
                               /\ SelectOneSrc(soup, i) # NoUrl
                               /\ \A j \in 1..(i - 1) : SelectOneSrc(soup, j) = NoUrl)
    ELSE FaviconHref(soup)

\* C10: og:image is consulted first, selector i only after og:image and the
\* selectors before it yielded no URL, the favicon only after og:image and
\* every selector yielded none; the URL downloaded is the one of the first
\* strategy that yields one.
C10_ChainInPriorityOrder ==
    /\ \A k \in 1..Len(log.consulted) :
         LET c == log.consulted[k]
         IN  /\ c.method = "og" => k = 1
             /\ c.method = "selector" =>
                  /\ k = c.i + 1
                  /\ MetaImageContent(logo_f.soup) = NoUrl
                  /\ \A j \in 1..(c.i - 1) : SelectOneSrc(logo_f.soup, j) = NoUrl
             /\ c.method = "favicon" =>
                  /\ k = NumSelectors + 2
                  /\ MetaImageContent(logo_f.soup) = NoUrl
                  /\ \A j \in 1..NumSelectors : SelectOneSrc(logo_f.soup, j) = NoUrl
    /\ pc = "logo_download" =>
         (logo_f.logo_url # NoUrl /\ logo_f.logo_url = ChainUrl(logo_f.soup))
    /\ pc = "logo_notfound" => ChainUrl(logo_f.soup) = NoUrl
    /\ \A k \in 1..Len(LogoDownloads) :
         LogoDownloads[k].target = urljoin(url, ChainUrl(logo_f.soup))

\* the favicon was the last resort of a page with logo markup that has no
\* source, and it was downloaded
C10_Witness ==
    /\ pc = "done"
    /\ ret.tag = "data"
    /\ site.page.og = NoAttr
    /\ site.page.sels # <<>>
    /\ Len(log.consulted) = NumSelectors + 2
    /\ LogoDownloads # <<>>
    /\ LogoDownloads[1].target = urljoin(url, "/favicon.ico")

\* C11: every image extract_company_images returns is an RGB image, whatever
\* the mode of its source: a source of mode RGBA, LA, P or L was pasted on a
\* white background, a source of any other mode was converted to RGB.
C11_ReturnedImagesAreRgb ==
    ImagesScanned =>
      \A k \in 1..Len(ret.images) :
        /\ ret.images[k].content.mode = "RGB"
        /\ \E j \in 1..Len(site.page.imgs) :
             LET img == site.page.imgs[j]
             IN  /\ ret.images[k] = Encoded(img, url)
                 /\ img.file.mode \in {"RGBA", "LA", "P", "L"}
                      <=> ret.images[k].content.background = "white"

\* an image of a mode that is neither RGB nor pasted on white was returned
C11_Witness ==
    /\ ImagesScanned
    /\ Len(ret.images) = 1
    /\ site.page.imgs[1].file.mode = "CMYK"
    /\ ret.images[1].content.mode = "RGB"

\* the largest difference of two channels, and three times the brightness
MaxPairDiff(rgb) == Max3(Abs(rgb[1] - rgb[2]), Abs(rgb[2] - rgb[3]), Abs(rgb[1] - rgb[3]))
ChannelSum(rgb) == rgb[1] + rgb[2] + rgb[3]

\* is_vibrant has returned
VibrantReturned == pc = "vibrant" /\ ret.tag = "verdict"

C13_Claimed ==
    VibrantReturned =>
      (ret.verdict <=> /\ MaxPairDiff(ret.rgb) > 20
                       /\ ChannelSum(ret.rgb) > 3 * 30
                       /\ ChannelSum(ret.rgb) < 3 * 240)

\* C13, amended: a triple is accepted if and only if its largest channel
\* difference is at least 20 and its brightness at least 30 and at most 240.
C13_AcceptedIffWithinBounds ==
    VibrantReturned =>
      (ret.verdict <=> /\ MaxPairDiff(ret.rgb) >= 20
                       /\ ChannelSum(ret.rgb) >= 3 * 30
                       /\ ChannelSum(ret.rgb) <= 3 * 240)

\* a triple with a difference of exactly 20 and a brightness of exactly 30
\* was accepted
C13_Witness ==
    /\ VibrantReturned
    /\ ret.rgb = <<20, 30, 40>>
    /\ ret.verdict

\* generate_qr_code, called on its own, has returned
QrReturned == pc = "done" /\ stack = <<>> /\ (ret = None \/ ret.mime = "image/png")

\* the pixels of the image hold fewer bits than the data has: no reader can
\* recover the data from it
TooSmallToHold(img) == 24 * img.width * img.height < 8 * ByteLen(img.data)

\* the image keeps at least three pixels for a module of the symbol
ThreePixelsAModule(img) == img.width >= 3 * img.side

ReachesAttrTest(img) ==
    /\ ImgUrl(img) # NoAttr
    /\ ~StartsWithData(ImgUrl(img))
    /\ ~EndsWithSvgGif(ImgUrl(img))

\* width and height are both there and both numbers
BothNumbers(img) ==
    /\ img.width # NoAttr /\ img.height # NoAttr
    /\ IsPx(img.width) /\ IsPx(img.height)

\* C15, as claimed: an element is skipped at the attribute test only when
\* width and height are both there, width below 200 and height below 150.
C15_Claimed ==
    \A k \in 1..Len(log.scanned) :
      LET img == site.page.imgs[log.scanned[k].i]
      IN  log.scanned[k].reason = "attributes" =>
            /\ BothNumbers(img)
            /\ ParsePx(img.width) < 200
            /\ ParsePx(img.height) < 150

\* C15, amended: an element that reaches the attribute test is skipped there
\* if and only if width and height are both there, both numbers, and width
\* is below 200 or height below 150.
C15_SkippedIfEitherBelow ==
    \A k \in 1..Len(log.scanned) :
      LET img == site.page.imgs[log.scanned[k].i]
      IN  ReachesAttrTest(img) =>
            (log.scanned[k].reason = "attributes"
               <=> /\ BothNumbers(img)
                   /\ (ParsePx(img.width) < 200 \/ ParsePx(img.height) < 150))

\* an element with a width of 640px and a height of 149 was skipped at the
\* attribute test, one with 640px and 200 and one with a width of "auto"
\* were not
C15_Witness ==
    /\ pc = "done"
    /\ \E k \in 1..Len(log.scanned) :
         /\ log.scanned[k].reason = "attributes"
         /\ site.page.imgs[log.scanned[k].i].width = "640px"
         /\ site.page.imgs[log.scanned[k].i].height = "149"
    /\ \E k \in 1..Len(log.scanned) :
         /\ log.scanned[k].reason = "ok"
         /\ site.page.imgs[log.scanned[k].i].width = "640px"
    /\ \E k \in 1..Len(log.scanned) :
         /\ log.scanned[k].reason = "ok"
         /\ site.page.imgs[log.scanned[k].i].width = "auto"

\* the colour strings the logo strategy can assign from the logo of the
\* site, and those the CSS strategy can assign from its page
LogoStrings ==
    {FormatHex(site.logo_file.body.quant[i]) : i \in 1..Len(site.logo_file.body.quant)}
CssStrings ==
    LET filtered_colors == FilteredColors(AllColors(site.page.css))
    IN  {filtered_colors[i] : i \in 1..Len(filtered_colors)}

\* the palette holds a colour of the logo in one slot and a colour of the
\* page in another
MixedPalette(colors) ==
    \E s1, s2 \in Slots : colors[s1] \in LogoStrings /\ colors[s2] \in CssStrings

\* C16, as claimed: with a logo that was resolved and decodes as an image the
\* page is never fetched for its CSS, and no palette mixes the strategies.
C16_Claimed ==
    ColorsReturned =>
      /\ (colors_f.logo_data.tag = "data" /\ colors_f.logo_data.content.decodable)
           => ~CssTried
      /\ ~MixedPalette(ret.colors)

\* the logo strategy returned the palette (line 339): the logo is a data URI
\* of an image type and get_color and get_palette both succeeded
LogoStrategyReturned ==
    /\ LogoUsable(colors_f.logo_data)
    /\ Quantizable(colors_f.logo_data.content)
    /\ "palette" \notin log.inner

\* C16, amended: the page is fetched for its CSS exactly when the logo
\* strategy did not return the palette (no logo, a logo that is no image
\* type, or a failure while its colours were extracted); when it did, every
\* assigned slot holds a colour of the logo; no palette mixes the strategies.
C16_CssOnlyWithoutLogoPalette ==
    ColorsReturned =>
      /\ CssTried <=> ~LogoStrategyReturned
      /\ LogoStrategyReturned =>
           \A slot \in Slots :
             ret.colors[slot] \in LogoStrings \cup {DefaultColors[slot]}
      /\ ~MixedPalette(ret.colors)

\* the logo gave the primary colour, its palette failed, and the palette
\* returned is the one of the page
C16_Witness ==
    /\ ColorsReturned
    /\ "palette" \in log.inner
    /\ CssTried
    /\ ret.colors.primary \in CssStrings
    /\ ret.colors.primary # FormatHex(get_color(colors_f.logo_data.content))

\* Method 2 is over: the last strategy consulted is a selector and the code
\* is past the loop
SelectorsOver ==
    /\ pc \in {"logo_favicon", "logo_download"}
    /\ log.consulted # <<>>
    /\ log.consulted[Len(log.consulted)].method = "selector"

\* the elements of the page that selector i matches, in document order
MatchedBy(i) == IF i <= Len(logo_f.soup.sels) THEN logo_f.soup.sels[i] ELSE <<>>

\* the selectors with a matching element that has a source, and those whose
\* first matching element has one
HasSourceAmongMatches == {i \in 1..NumSelectors : \E k \in 1..Len(MatchedBy(i)) : MatchedBy(i)[k] # NoAttr}
HasSourceAtFirstMatch == {i \in 1..NumSelectors : MatchedBy(i) # <<>> /\ MatchedBy(i)[1] # NoAttr}

\* the smallest number of a non-empty set of numbers
Least(S) == CHOOSE i \in S : \A j \in S : i <= j

\* C17, as claimed: the selector stage yields the source of the first
\* matching element that has one, in the order of the selectors and, for
\* one selector, of the document.
C17_Claimed ==
    SelectorsOver =>
      IF HasSourceAmongMatches = {} THEN logo_f.logo_url = NoUrl
      ELSE LET found == MatchedBy(Least(HasSourceAmongMatches))
           IN  logo_f.logo_url = Head(SelectSeq(found, LAMBDA src : src # NoAttr))

\* C17, amended: the selectors are tried in the order of the list, only the
\* first element a selector matches is looked at, and the stage yields the
\* source of that element for the first selector where it has one; the
\* selectors after it are not tried.
C17_FirstMatchOfEachSelector ==
    /\ \A k \in 1..Len(log.consulted) :
         log.consulted[k].method = "selector" =>
           /\ log.consulted[k].i = k - 1
           /\ \A j \in 1..(log.consulted[k].i - 1) : j \notin HasSourceAtFirstMatch
    /\ SelectorsOver =>
         IF HasSourceAtFirstMatch = {} THEN logo_f.logo_url = NoUrl
         ELSE /\ logo_f.logo_url = MatchedBy(Least(HasSourceAtFirstMatch))[1]
              /\ log.consulted[Len(log.consulted)].i = Least(HasSourceAtFirstMatch)

\* the first selector matches an element without a source and then one with
\* a source; the second selector gave the logo
C17_Witness ==
    /\ SelectorsOver
    /\ pc = "logo_download"
    /\ Len(MatchedBy(1)) = 2
    /\ MatchedBy(1)[1] = NoAttr
    /\ MatchedBy(1)[2] # NoAttr
    /\ MatchedBy(2) # <<>>
    /\ logo_f.logo_url = MatchedBy(2)[1]

\* the CSS strategy came to its end (line 412)
CssReturned == ColorsReturned /\ CssTried /\ "colors" \notin log.caught

\* the colours of the page that survive is_brand_color, in page order
Survivors == FilteredColors(AllColors(site.page.css))

\* where c occurs first among the survivors
FirstAt(c) == CHOOSE i \in 1..Len(Survivors) :
                /\ Survivors[i] = c
                /\ \A j \in 1..(i - 1) : Survivors[j] # c

\* d ranks before c: it occurs more often, or as often and first
RanksBefore(d, c) ==
    \/ Count(Survivors, d) > Count(Survivors, c)
    \/ Count(Survivors, d) = Count(Survivors, c) /\ FirstAt(d) < FirstAt(c)

\* the number of distinct survivors that rank before c
RankOf(c) ==
    Cardinality({d \in {Survivors[i] : i \in 1..Len(Survivors)} : RanksBefore(d, c)})

\* the top three distinct survivors fill primary, secondary, accent in the
\* order of their rank
C18_TopThreeRanked ==
    CssReturned =>
      \A i \in 1..Len(Survivors) :
        /\ RankOf(Survivors[i]) = 0 => ret.colors.primary = Survivors[i]
        /\ RankOf(Survivors[i]) = 1 => ret.colors.secondary = Survivors[i]
        /\ RankOf(Survivors[i]) = 2 => ret.colors.accent = Survivors[i]

\* a slot beyond the number of distinct survivors holds its default
C18_RestDefault ==
    CssReturned =>
      \A slot \in Slots :
        SlotRank(slot) > Cardinality({Survivors[i] : i \in 1..Len(Survivors)})
          => ret.colors[slot] = DefaultColors[slot]

\* C18, as claimed: in the CSS strategy the surviving colours are ranked by
\* descending count, ties by first occurrence, the top three distinct ones
\* fill primary, secondary and accent in that order, and with fewer than
\* three the remaining slots hold their defaults.
C18_Claimed == C18_TopThreeRanked /\ C18_RestDefault

\* the palette get_palette gives for the logo, and its vibrant colours
LogoPalette == colors_f.logo_data.content.quant
LogoVibrant == SelectSeq(LogoPalette, is_vibrant)

\* C19: when the logo strategy returns the palette, primary is the dominant
\* colour whether vibrant or not, secondary the second and accent the third
\* vibrant colour of the palette in its order, a slot without such a colour
\* holds its default, and the first vibrant colour is given to no slot.
C19_LogoSlotsFromSecondVibrant ==
    (ColorsReturned /\ LogoStrategyReturned) =>
      /\ ret.colors.primary = FormatHex(LogoPalette[1])
      /\ ret.colors.secondary = IF Len(LogoVibrant) >= 2 THEN FormatHex(LogoVibrant[2])
                                 ELSE DefaultSecondary
      /\ ret.colors.accent = IF Len(LogoVibrant) >= 3 THEN FormatHex(LogoVibrant[3])
                              ELSE DefaultAccent
      /\ (LogoVibrant # <<>> /\ LogoVibrant[1] # LogoPalette[1]) =>
           \A slot \in Slots : ret.colors[slot] # FormatHex(LogoVibrant[1])

\* a gray dominant colour became primary, the second vibrant colour
\* secondary, the first vibrant colour nothing, and accent kept its default
C19_Witness ==
    /\ ColorsReturned /\ LogoStrategyReturned
    /\ LogoPalette = <<Gray, Blue, Orange>>
    /\ ret.colors = [primary |-> FormatHex(Gray), secondary |-> FormatHex(Orange),
                     accent |-> DefaultAccent]

\* the downloads of image candidates made so far, in the order they began
ImageDownloads ==
    SelectSeq(log.requests, LAMBDA r : r.fn = "images" /\ r.target # "page")

\* the iterations in which the element's URL was requested: those that ended
\* at the download or at a step after it
DownloadingScans ==
    SelectSeq(log.scanned,
              LAMBDA e : e.reason \in {"exception", "status", "size", "verify", "dimensions",
                                       "transparent", "white", "ok"})

\* the elements are taken one after the other in document order, every
\* iteration began with fewer than max_images results, and the downloads
\* are those of the iterations that came to the download, in their order
SequentialScan ==
    /\ \A k \in 1..Len(log.scanned) :
         /\ log.scanned[k].i = k
         /\ log.scanned[k].collected < images_f.max_images
    /\ Len(ImageDownloads) = Len(DownloadingScans)
    /\ \A k \in 1..Len(ImageDownloads) :
         ImageDownloads[k].target =
           urljoin(url, ImgUrl(site.page.imgs[DownloadingScans[k].i]))

\* a step starts at most one download, that of the next element, and the
\* element before it is accepted or skipped by then
OneDownloadAStep ==
    Len(ImageDownloads') > Len(ImageDownloads) =>
      /\ Len(ImageDownloads') = Len(ImageDownloads) + 1
      /\ Len(log'.scanned) = Len(log.scanned) + 1
      /\ Len(images_f.images) < images_f.max_images
      /\ images_f'.i = images_f.i + 1

\* C20: the candidates are downloaded one at a time in document order, no
\* download starts once max_images results are collected, and none starts
\* for an element before the element ahead of it is accepted or skipped.
C20_SequentialEarlyExit == []SequentialScan /\ [][OneDownloadAStep]_vars

\* the scan stopped at max_images with a candidate left that would have
\* been downloaded
C20_Witness ==
    /\ ImagesScanned
    /\ Len(ret.images) = images_f.max_images
    /\ Len(ImageDownloads) >= 2
    /\ Len(log.scanned) < Len(site.page.imgs)
    /\ Downloads(site.page.imgs[Len(site.page.imgs)], url)


\* int(str(width).replace('px', '')) or the same of height raises for the
\* element (lines 546-551): both attributes are there and one is no number
AttrParseRaises(img) ==
    /\ ReachesAttrTest(img)
    /\ img.width # NoAttr /\ img.height # NoAttr
    /\ ~(IsPx(img.width) /\ IsPx(img.height))

\* the qualifying elements ahead of element i, in document order
QualifyingBefore(i) ==
    SelectSeq(SubSeq(site.page.imgs, 1, i - 1), LAMBDA img : Qualifies(img, url))

\* the images collected before iteration k are there as they were
Kept(k) ==
    LET e == log.scanned[k]
    IN  /\ e.collected = Len(QualifyingBefore(e.i))
        /\ Len(images_f.images) >= e.collected
        /\ \A j \in 1..e.collected :
             images_f.images[j] = Encoded(QualifyingBefore(e.i)[j], url)
        /\ "images" \notin log.caught

\* iteration k added nothing and the loop went on with the next element of
\* the page
WentOn(k) ==
    LET e == log.scanned[k]
    IN  /\ k = Len(log.scanned) => Len(images_f.images) = e.collected
        /\ k < Len(log.scanned) =>
             /\ log.scanned[k + 1].i = e.i + 1
             /\ log.scanned[k + 1].collected = e.collected
        /\ (pc \in {"images_return", "done"} /\ e.i < Len(site.page.imgs))
             => k < Len(log.scanned)

\* C21, as claimed: an exception raised at any step of an element's
\* processing skips that element, keeps the images collected so far and
\* lets the scan go on with the elements after it.
C21_Claimed ==
    \A k \in 1..Len(log.scanned) :
      LET img == site.page.imgs[log.scanned[k].i]
      IN  (log.scanned[k].reason = "exception" \/ AttrParseRaises(img)) =>
            /\ log.scanned[k].reason # "ok"
            /\ Kept(k)
            /\ WentOn(k)

\* C21, amended: an exception raised from the resolution of the absolute URL
\* to the re-encoding (lines 567-660) skips that element only: the images
\* collected so far are kept and the scan goes on with the next element.
\* A width or height attribute that is no number raises inside the attribute
\* test and is swallowed there: the test is passed over, the element goes on
\* through the later steps as if it had no such attributes and is appended
\* when it passes them.
C21_ExceptionSkipsOneElement ==
    \A k \in 1..Len(log.scanned) :
      LET img == site.page.imgs[log.scanned[k].i]
      IN  /\ log.scanned[k].reason = "exception" => (Kept(k) /\ WentOn(k))
          /\ AttrParseRaises(img) =>
                /\ log.scanned[k].reason
                     = SkipReason([img EXCEPT !.width = NoAttr, !.height = NoAttr], url)
                /\ Kept(k)

\* a download raised after an image was collected, the element after it was
\* appended, and so was an element with a width of "auto"
C21_Witness ==
    /\ ImagesScanned
    /\ Len(log.scanned) = 3
    /\ log.scanned[1].reason = "ok"
    /\ log.scanned[2].reason = "exception"
    /\ log.scanned[3].reason = "ok"
    /\ AttrParseRaises(site.page.imgs[3])
    /\ Len(ret.images) = 2


\* the iterations so far that appended their element
AppendingScans == SelectSeq(log.scanned, LAMBDA e : e.reason = "ok")

\* C22: an element is appended only if its download came back with status
\* 200 and a body of 10000 to 5000000 bytes; an element whose download has
\* another status, or a body shorter or longer than that, is skipped, and
\* the list grows by the appended elements only.
C22_AppendedOnlyIfOkAndSized ==
    /\ Len(images_f.images) = Len(AppendingScans)
    /\ \A k \in 1..Len(log.scanned) :
         LET img == site.page.imgs[log.scanned[k].i]
         IN  /\ log.scanned[k].reason = "ok" =>
                  /\ ~img.net.raised
                  /\ img.net.status = 200
                  /\ img.file.size >= 10000
                  /\ img.file.size <= 5000000
             /\ (img.net.status # 200 \/ img.file.size < 10000 \/ img.file.size > 5000000) =>
                  /\ log.scanned[k].reason # "ok"
                  /\ WentOn(k)

\* a body of 9999 bytes was skipped between two elements that were appended
C22_Witness ==
    /\ ImagesScanned
    /\ Len(log.scanned) = 3
    /\ log.scanned[2].reason = "size"
    /\ site.page.imgs[2].file.size = 9999
    /\ site.page.imgs[2].net.status = 200
    /\ Len(ret.images) = 2
    /\ site.page.imgs[1].file.size >= 10000


\* the URL a request went to
RequestedUrl(r) == IF r.target = "page" THEN url ELSE r.target

\* the asset a request was made for: extract_brand_colors makes the requests
\* of its own call of extract_company_logo and that of the CSS strategy
AssetOf(r) == IF r.fn \in {"colors", "colors.logo"} THEN "palette" ELSE r.fn

\* the fetch raised or came back with a status other than 200
FetchFailed(r) == r.outcome.raised \/ r.outcome.status # 200

\* the requests.get call of the code a request came from: the page fetch or
\* the file download of the function
CallSite(r) == <<r.fn, IF r.target = "page" THEN "page" ELSE "file">>

\* C23, as claimed: within the extraction of one asset a URL whose fetch
\* failed is not requested again.
C23_Claimed ==
    \A i, j \in 1..Len(log.requests) :
      (i < j /\ AssetOf(log.requests[i]) = AssetOf(log.requests[j])
             /\ FetchFailed(log.requests[i]))
        => RequestedUrl(log.requests[i]) # RequestedUrl(log.requests[j])

\* C23, amended: no fetch is attempted again because it failed. Every
\* requests.get of a call is made at most once whatever its outcome (the
\* candidate download once for each <img> element), and no request of the
\* function follows a page fetch that raised. A URL whose fetch failed is
\* requested again within one asset only by another step: the page, fetched
\* by the logo resolver for the palette, is fetched again by the CSS
\* strategy, and an image URL is downloaded again for another <img> element
\* that has the same source.
C23_NoFetchRepeated ==
    /\ Len(ImageDownloads) = Len(DownloadingScans)
    /\ \A i, j \in 1..Len(log.requests) :
         LET a == log.requests[i]
             b == log.requests[j]
         IN  i < j =>
               /\ (CallSite(a) = CallSite(b)) => CallSite(a) = <<"images", "file">>
               /\ (a.fn = b.fn /\ a.target = "page") => ~a.outcome.raised
               /\ (AssetOf(a) = AssetOf(b) /\ FetchFailed(a)
                     /\ RequestedUrl(a) = RequestedUrl(b))
                    => \/ CallSite(a) = <<"colors.logo", "page">>
                          /\ CallSite(b) = <<"colors", "page">>
                       \/ CallSite(a) = <<"images", "file">>
                          /\ CallSite(b) = <<"images", "file">>

\* every fetch of the pipeline failed: the page was requested by the logo
\* resolver and again by the CSS strategy, and the image that two elements
\* share was requested after its first download raised
C23_Witness ==
    /\ pc = "done" /\ url = ShortUrl
    /\ \E i, j \in 1..Len(log.requests) :
         /\ i < j
         /\ CallSite(log.requests[i]) = <<"colors.logo", "page">>
         /\ log.requests[i].outcome.raised
         /\ CallSite(log.requests[j]) = <<"colors", "page">>
    /\ \E i, j \in 1..Len(log.requests) :
         /\ i < j
         /\ CallSite(log.requests[i]) = <<"images", "file">>
         /\ log.requests[i].outcome.raised
         /\ log.requests[j].target = log.requests[i].target
    /\ Len(orch.images) = 1


\* the palette of the page holds a colour taken from the logo that
\* extract_brand_colors fetched
PaletteFromLogo ==
    /\ log.strategy \in {"logo", "both"}
    /\ "colors" \notin log.caught
    /\ ret.css_vars.primary = FormatHex(get_color(colors_f.logo_data.content))

\* C24, as claimed: in the page that generate_interactive_html returns the
\* palette is derived from a logo only if that logo is the one shown in the
\* page, whatever the outcomes of the requests.
C24_Claimed ==
    (pc = "done" /\ ret.tag = "html" /\ url # "" /\ PaletteFromLogo) =>
      /\ ret.logo_src # None
      /\ ret.logo_html = "company-logo"
      /\ ret.logo_src = colors_f.logo_data


\* the requests that constructed a BrochureGenerator
Builders == {t \in Threads : threads[t].built}

\* C25, as claimed: under any interleaving of the requests the generator is
\* constructed at most once, and the requests all use the same instance.
C25_Claimed ==
    /\ Cardinality(Builders) <= 1
    /\ \A t \in Builders : generator = Instance(t)
    /\ \A t, u \in Threads :
         (threads[t].called /\ threads[u].called) => threads[t].used = threads[u].used

\* the request of thread t went to /generate and has been answered
Answered(t) == threads[t].route = "/generate" /\ threads[t].response # None

\* the name and the URL of the request, stripped
NameOf(t) == Strip(Get(threads[t].data, "company_name", <<>>))
UrlOf(t) == Strip(Get(threads[t].data, "url", <<>>))

\* create_brochure is called only after init_generator returned True, with a
\* generator in place and a name and a URL that are not empty when stripped
CalledOnlyWhenValid(t) ==
    threads[t].called =>
      /\ threads[t].init = "true"
      /\ threads[t].used # None
      /\ NameOf(t) # <<>>
      /\ UrlOf(t) # <<>>

\* success is answered only for content that is not empty; None and the
\* empty text are answered 500
SuccessOnlyWithContent(t) ==
    Answered(t) =>
      /\ threads[t].response.success =>
           /\ threads[t].called
           /\ threads[t].response.status = 200
           /\ threads[t].brochure_content # None
           /\ threads[t].brochure_content.chars # <<>>
      /\ (threads[t].called /\ threads[t].brochure_content \in {None, Str(<<>>)}) =>
           /\ threads[t].response.status = 500
           /\ ~threads[t].response.success

\* C26, as claimed: /generate calls create_brochure only after the
\* initialisation succeeded and with a name and a URL that are not empty when
\* stripped; a request with an empty name or URL is answered 400 and
\* nothing is generated; success is answered only for non-empty content.
C26_Claimed ==
    \A t \in Threads :
      threads[t].route = "/generate" =>
        /\ CalledOnlyWhenValid(t)
        /\ SuccessOnlyWithContent(t)
        /\ (Answered(t) /\ (NameOf(t) = <<>> \/ UrlOf(t) = <<>>)) =>
             /\ threads[t].response.status = 400
             /\ ~threads[t].called

\* C26, amended: as claimed, but a request with an empty name or URL is
\* answered 400 when init_generator returned True; when it returned False
\* the request is answered 500 before the fields are read. Nothing is
\* generated in either case.
C26_ValidatedAfterInit ==
    \A t \in Threads :
      threads[t].route = "/generate" =>
        /\ CalledOnlyWhenValid(t)
        /\ SuccessOnlyWithContent(t)
        /\ (Answered(t) /\ threads[t].init = "false") =>
             /\ threads[t].response = InitFailed("/generate")
             /\ ~threads[t].called
        /\ (Answered(t) /\ (NameOf(t) = <<>> \/ UrlOf(t) = <<>>)) =>
             /\ ~threads[t].called
             /\ threads[t].init = "true" => threads[t].response.status = 400
             /\ threads[t].init = "false" => threads[t].response.status = 500

\* one request with a name of blanks was answered 400, another with a name
\* and a URL was answered with success
C26_Witness ==
    /\ Answered("t1") /\ Answered("t2")
    /\ threads["t1"].data.company_name = Present(<<" ", " ">>)
    /\ threads["t1"].data.url.text # <<>>
    /\ threads["t1"].response.status = 400
    /\ threads["t2"].called
    /\ threads["t2"].data.company_name = Present(<<" ", "A", "c", "m", "e", " ">>)
    /\ threads["t2"].response.success


\* C27: with an empty company_url generate_interactive_html runs no stage
\* and makes no request: the palette is the default triple, there is no
\* logo (the initial letter is rendered), no image and no QR code.
C27_EmptyUrlRunsNothing ==
    url = "" =>
      /\ pc \in {"orch_start", "orch_render", "done"}
      /\ log.requests = <<>>
      /\ log.ran = {}
      /\ log.scanned = <<>>
      /\ orch.logo_data = None /\ orch.images = <<>> /\ orch.qr_code_data = None
      /\ orch.brand_colors = [primary |-> <<"#", "6", "3", "6", "6", "f", "1">>,
                              secondary |-> <<"#", "e", "c", "4", "8", "9", "9">>,
                              accent |-> <<"#", "8", "b", "5", "c", "f", "6">>]
      /\ pc = "done" =>
           /\ ret.tag = "html"
           /\ ret.css_vars = orch.brand_colors
           /\ ret.logo_src = None
           /\ ret.logo_html = "company-logo-fallback"
           /\ ret.gallery = <<>>
           /\ ret.qr_section = None

\* the page was returned for an empty company_url, on a site that has a
\* logo, colours and an image to offer
C27_Witness ==
    /\ pc = "done" /\ url = ""
    /\ ret.tag = "html"
    /\ site.page.og # NoTag /\ site.page.css # <<>> /\ site.page.imgs # <<>>

=============================================================================
